---------------------------- MODULE Spec2Model ----------------------------
(***************************************************************************)
(* MPL compiler: the upload endpoint (POST /api/upload) with its row       *)
(* reconciler (chooseFinalPair), normaliser (toInt, cleanDescription) and  *)
(* filter (soh <= mpl), in the handler variants the repository holds; the  *)
(* main page (upload flow, storage of the rows) and the labels view        *)
(* (reading the rows, column control, Code 39 strings, fitOne).            *)
(*                                                                         *)
(* JSON values are tagged records JV; a string is a sequence of            *)
(* one-character strings, so that trimming, upper-casing, separator        *)
(* removal and parseInt are computed character by character as the code    *)
(* does.                                                                   *)
(***************************************************************************)
EXTENDS Integers, Sequences, FiniteSets, TLC

VARIABLES
    raw,        \* toInt: the value handed to toInt
    coerced,    \* toInt: [set, v], the value toInt returned
    desc,       \* cleanDescription: the value handed to it
    cleaned,    \* cleanDescription: [set, s], the string it returned
    row,        \* reconciler: the candidate row of the provider
    final,      \* reconciler: [set, pair, rows], the result of map + filter
    req,        \* handler: the request and the environment it runs in
    pc,         \* handler: position in the handler
    calls,      \* handler: provider calls issued so far, in order
    upl,        \* handler: what the transient upload returned
    del,        \* handler: state of the cleanup delete
    pend,       \* handler: what the handler holds while its finally block runs
    resp,       \* handler: the response delivered to the client
    page,       \* main page: [mounted, file, rows, error, loading]
    store,      \* browser storage of the rows key: [ls, ss]
    flight,     \* main page: the calls of uploadAndExtract, in order of start
    lview,      \* labels view: [impl, loaded, rows, error, found]
    hist,       \* the latest successful extraction: [ok, rows]
    ctl,        \* labels view: the column control [impl, mounted, cols, stored, changed]
    article,    \* Code 39: the article to encode
    encoded,    \* Code 39: [set, path, s], the string a rendering path encodes
    el,         \* fitOne: the barcode element [client, measured, set, avail, num, den]
    last,       \* fitOne: the size committed before the current one
    rf,         \* labels view: the re-fit state [impl, mounted, refitTimer, timers, barcodes, fresh, step, ran]
    svg         \* labels view: the drawn barcode [set, client, data, runs, width, height, module, barcodeW, bars]

vars == <<raw, coerced, desc, cleaned, row, final, req, pc, calls, upl, del, pend, resp,
          page, store, flight, lview, hist, ctl, article, encoded, el, last, rf, svg>>

---------------------------------------------------------------------------
(* Bounds of the model *)

\* longest string handed to toInt
MaxLen == 3
\* longest description handed to cleanDescription
MaxDesc == 5
\* number of distinct stock levels a numeric cell may hold
MaxLevels == 6
\* longest row list a provider returns
MaxRows == 2

---------------------------------------------------------------------------
(* JSON values *)

Num(n) == [t |-> "num", n |-> n, s |-> <<>>]
Str(s) == [t |-> "str", n |-> 0, s |-> s]
Null == [t |-> "null", n |-> 0, s |-> <<>>]
Undef == [t |-> "undef", n |-> 0, s |-> <<>>]

Digits == <<"0", "1", "2", "3", "4", "5", "6", "7", "8", "9">>
Uppers == {"A", "B", "C", "D", "H", "I", "L", "M", "O", "P", "S", "W"}
Lowers == {"a", "b", "c", "d", "h", "i", "l", "m", "o", "p", "s", "w"}

IsDigit(c) == \E i \in 1..10 : Digits[i] = c
DigitVal(c) == (CHOOSE i \in 1..10 : Digits[i] = c) - 1
\* \s of a JavaScript regular expression, and the white space trim() removes
IsSpace(c) == c \in {" ", "\t"}
IsUpper(c) == c \in Uppers
IsAlnum(c) == c \in Uppers \/ c \in Lowers \/ IsDigit(c)

\* String.prototype.toUpperCase, one character
UpperChar(c) ==
    CASE c = "a" -> "A" [] c = "b" -> "B" [] c = "c" -> "C" [] c = "d" -> "D"
      [] c = "h" -> "H" [] c = "i" -> "I" [] c = "l" -> "L" [] c = "m" -> "M"
      [] c = "o" -> "O" [] c = "p" -> "P" [] c = "s" -> "S" [] c = "w" -> "W"
      [] OTHER -> c

toUpperCase(s) == [i \in 1..Len(s) |-> UpperChar(s[i])]

RECURSIVE TrimStart(_)
TrimStart(s) == IF s # <<>> /\ IsSpace(Head(s)) THEN TrimStart(Tail(s)) ELSE s

RECURSIVE TrimEnd(_)
TrimEnd(s) ==
    IF s # <<>> /\ IsSpace(s[Len(s)]) THEN TrimEnd(SubSeq(s, 1, Len(s) - 1)) ELSE s

\* String.prototype.trim
trim(s) == TrimEnd(TrimStart(s))

\* Number.prototype.toString of an integer
RECURSIVE NatToStr(_)
NatToStr(n) ==
    IF n < 10 THEN <<Digits[n + 1]>>
    ELSE NatToStr(n \div 10) \o <<Digits[(n % 10) + 1]>>

IntToStr(n) == IF n < 0 THEN <<"-">> \o NatToStr(0 - n) ELSE NatToStr(n)

\* String(v)
JsString(v) ==
    CASE v.t = "num" -> IntToStr(v.n)
      [] v.t = "str" -> v.s
      [] v.t = "null" -> <<"n", "u", "l", "l">>
      [] OTHER -> <<"u", "n", "d", "e", "f", "i", "n", "e", "d">>

\* JavaScript truthiness of a JSON value
Truthy(v) ==
    CASE v.t = "num" -> v.n # 0
      [] v.t = "str" -> v.s # <<>>
      [] OTHER -> FALSE

---------------------------------------------------------------------------
(* toInt *)

\* s.replace(/[, ]/g, '')
RECURSIVE StripSeparators(_)
StripSeparators(s) ==
    IF s = <<>> THEN <<>>
    ELSE IF Head(s) \in {",", " "} THEN StripSeparators(Tail(s))
    ELSE <<Head(s)>> \o StripSeparators(Tail(s))

\* the value of the longest digit prefix of s, continuing from acc
RECURSIVE DigitPrefix(_, _)
DigitPrefix(s, acc) ==
    IF s # <<>> /\ IsDigit(Head(s)) THEN DigitPrefix(Tail(s), 10 * acc + DigitVal(Head(s)))
    ELSE acc

\* parseInt(s, 10): leading white space skipped, an optional sign, then the
\* longest digit prefix; NaN when there is no digit there
ParseInt(s) ==
    LET t == TrimStart(s)
        neg == t # <<>> /\ Head(t) = "-"
        u == IF t # <<>> /\ Head(t) \in {"-", "+"} THEN Tail(t) ELSE t
    IN  IF u # <<>> /\ IsDigit(Head(u))
        THEN [nan |-> FALSE, v |-> IF neg THEN 0 - DigitPrefix(u, 0) ELSE DigitPrefix(u, 0)]
        ELSE [nan |-> TRUE, v |-> 0]

NumberIsFinite(x) == ~x.nan

\* mutant: the separators are not removed before parsing
toInt_keepSeparators(n) ==
    IF n.t \in {"null", "undef"} THEN 0
    ELSE LET x == ParseInt(JsString(n))
         IN  IF NumberIsFinite(x) THEN x.v ELSE 0

toInt(n) ==
    IF n.t \in {"null", "undef"} THEN 0
    ELSE LET x == ParseInt(StripSeparators(JsString(n)))
         IN  IF NumberIsFinite(x) THEN x.v ELSE 0

---------------------------------------------------------------------------
(* cleanDescription *)

\* the matches of /^[A-Z]{1,3}\s+(?=[A-Za-z0-9])/u at the start of s, each as
\* <<letters, white space>>
PrefixMatches(s) ==
    {m \in (1..3) \X (1..Len(s)) :
        /\ m[1] + m[2] < Len(s)
        /\ \A i \in 1..m[1] : IsUpper(s[i])
        /\ \A i \in (m[1] + 1)..(m[1] + m[2]) : IsSpace(s[i])
        /\ IsAlnum(s[m[1] + m[2] + 1])}

\* the matches of the same expression without its lookahead
PrefixMatches_noLookahead(s) ==
    {m \in (1..3) \X (1..Len(s)) :
        /\ m[1] + m[2] <= Len(s)
        /\ \A i \in 1..m[1] : IsUpper(s[i])
        /\ \A i \in (m[1] + 1)..(m[1] + m[2]) : IsSpace(s[i])}

\* greedy quantifiers: the most letters, then the most white space
Greedy(ms) ==
    CHOOSE m \in ms : \A o \in ms : o[1] < m[1] \/ (o[1] = m[1] /\ o[2] <= m[2])

\* s.replace(/^[A-Z]{1,3}\s+(?=[A-Za-z0-9])/u, '')
StripPrefix(s) ==
    LET ms == PrefixMatches(s)
    IN  IF ms = {} THEN s
        ELSE SubSeq(s, Greedy(ms)[1] + Greedy(ms)[2] + 1, Len(s))

\* length of the white-space run s starts with
RECURSIVE SpaceRun(_)
SpaceRun(s) == IF s # <<>> /\ IsSpace(Head(s)) THEN 1 + SpaceRun(Tail(s)) ELSE 0

\* s.replace(/\s{2,}/g, ' ')
RECURSIVE CollapseSpaces(_)
CollapseSpaces(s) ==
    IF s = <<>> THEN <<>>
    ELSE IF SpaceRun(s) >= 2
    THEN <<" ">> \o CollapseSpaces(SubSeq(s, SpaceRun(s) + 1, Len(s)))
    ELSE <<Head(s)>> \o CollapseSpaces(Tail(s))

\* mutant: the prefix is stripped whatever follows its white space
cleanDescription_noLookahead(d) ==
    IF ~Truthy(d) \/ d.t # "str" THEN <<>>
    ELSE LET ms == PrefixMatches_noLookahead(d.s)
             c == IF ms = {} THEN d.s
                  ELSE SubSeq(d.s, Greedy(ms)[1] + Greedy(ms)[2] + 1, Len(d.s))
         IN  CollapseSpaces(trim(c))

cleanDescription(d) ==
    IF ~Truthy(d) \/ d.t # "str" THEN <<>>
    ELSE CollapseSpaces(trim(StripPrefix(d.s)))

---------------------------------------------------------------------------
(* chooseFinalPair *)

\* mutant: the label is used without its default
HeaderReceiver_noDefault(v) == v

\* (v || ''): the value whose toString is called
HeaderReceiver(v) == IF Truthy(v) THEN v ELSE Str(<<>>)

\* a method call on null or undefined throws a TypeError
CallThrows(v) == v.t \in {"null", "undef"}

\* (v || '').toString().trim().toUpperCase()
HeaderLabel(v) == toUpperCase(trim(JsString(HeaderReceiver(v))))

MPL == <<"M", "P", "L">>
SOH == <<"S", "O", "H">>

\* mutant: the capacity check is missing from the swap test
chooseFinalPair_noCapacityCheck(r) ==
    LET mh == HeaderLabel(r.mpl_header)
        sh == HeaderLabel(r.soh_header)
        headerLooksRight == (mh = MPL /\ sh = SOH)
        h_mpl == toInt(r.mpl)
        h_soh == toInt(r.soh)
        t_mpl == toInt(r.tail_mpl)
        t_soh == toInt(r.tail_soh)
        headerLooksSwapped == (h_mpl = t_soh /\ h_soh = t_mpl)
        headerUsable ==
            headerLooksRight /\ ~headerLooksSwapped /\ ~(h_mpl = 0 /\ t_mpl > 0)
    IN  IF headerUsable THEN [mpl |-> h_mpl, soh |-> h_soh]
        ELSE [mpl |-> t_mpl, soh |-> t_soh]

\* mutant: the zero-header guard is missing
chooseFinalPair_noZeroGuard(r) ==
    LET mh == HeaderLabel(r.mpl_header)
        sh == HeaderLabel(r.soh_header)
        headerLooksRight == (mh = MPL /\ sh = SOH)
        h_mpl == toInt(r.mpl)
        h_soh == toInt(r.soh)
        t_mpl == toInt(r.tail_mpl)
        t_soh == toInt(r.tail_soh)
        t_cap == toInt(r.tail_capacity)
        headerLooksSwapped ==
            \/ (h_mpl = t_cap /\ t_mpl # t_cap)
            \/ (h_mpl = t_soh /\ h_soh = t_mpl)
        headerUsable == headerLooksRight /\ ~headerLooksSwapped
    IN  IF headerUsable THEN [mpl |-> h_mpl, soh |-> h_soh]
        ELSE [mpl |-> t_mpl, soh |-> t_soh]

chooseFinalPair(r) ==
    LET mh == HeaderLabel(r.mpl_header)
        sh == HeaderLabel(r.soh_header)
        headerLooksRight == (mh = MPL /\ sh = SOH)
        h_mpl == toInt(r.mpl)
        h_soh == toInt(r.soh)
        t_mpl == toInt(r.tail_mpl)
        t_soh == toInt(r.tail_soh)
        t_cap == toInt(r.tail_capacity)
        headerLooksSwapped ==
            \/ (h_mpl = t_cap /\ t_mpl # t_cap)
            \/ (h_mpl = t_soh /\ h_soh = t_mpl)
        headerUsable ==
            headerLooksRight /\ ~headerLooksSwapped /\ ~(h_mpl = 0 /\ t_mpl > 0)
    IN  IF headerUsable THEN [mpl |-> h_mpl, soh |-> h_soh]
        ELSE [mpl |-> t_mpl, soh |-> t_soh]

\* chooseFinalPair(row) throws: only the two toString calls can, toInt tests
\* for null and undefined before it converts
chooseFinalPairThrows(r) ==
    CallThrows(HeaderReceiver(r.mpl_header)) \/ CallThrows(HeaderReceiver(r.soh_header))

---------------------------------------------------------------------------
(* finalRows: map + filter over the provider's rows *)

\* String(r.article ?? '').trim()
ArticleOf(r) == trim(IF r.article.t \in {"null", "undef"} THEN <<>> ELSE JsString(r.article))

MapRow(r) ==
    [article |-> ArticleOf(r),
     description |-> cleanDescription(r.description),
     mpl |-> chooseFinalPair(r).mpl,
     soh |-> chooseFinalPair(r).soh]

\* mutant: the filter compares strictly
KeepRow_strict(o) == o.article # <<>> /\ o.soh < o.mpl

\* r => r.article && r.soh <= r.mpl
KeepRow(o) == o.article # <<>> /\ o.soh <= o.mpl

\* mutant: the kept rows are returned last first
finalRows_reversed(rows) ==
    LET kept == SelectSeq([i \in 1..Len(rows) |-> MapRow(rows[i])], KeepRow)
    IN  [i \in 1..Len(kept) |-> kept[Len(kept) + 1 - i]]

finalRows(rows) == SelectSeq([i \in 1..Len(rows) |-> MapRow(rows[i])], KeepRow)

---------------------------------------------------------------------------
(* Inputs *)

StringsUpTo(A, n) == UNION {[1..k -> A] : k \in 0..n}

\* what a provider may put into a numeric field
RawValues ==
    {Str(s) : s \in StringsUpTo({"0", "1", ",", " ", "-", "a", "\t"}, MaxLen)}
        \cup {Num(n) : n \in {-5, 0, 7, 10, 1234}}
        \cup {Null, Undef}

\* what a provider may put into a description
Descriptions ==
    {Str(s) : s \in StringsUpTo({"P", "w", " ", "\t", "-"}, MaxDesc)}
        \cup {Num(7), Null, Undef}

Level == <<-5, 0, 4, 10, 11, 20, 21, 5>>
Levels == {Level[i] : i \in 1..MaxLevels}

HeaderPairs ==
    {<<Str(MPL), Str(SOH)>>,
     <<Str(<<" ", "m", "p", "l", " ">>), Str(<<"S", "o", "h">>)>>,
     <<Str(SOH), Str(MPL)>>,
     <<Null, Str(SOH)>>}

Articles == {Str(<<" ">>), Str(<<" ", "A", "1", " ">>), Null}

CandidateRows ==
    {[article |-> a, description |-> Str(<<"P", "I", " ", "w">>),
      mpl |-> Num(hm), soh |-> Num(hs),
      mpl_header |-> h[1], soh_header |-> h[2],
      tail_soh |-> Num(ts), tail_mpl |-> Num(tm), tail_capacity |-> Num(tc)] :
        a \in Articles, h \in HeaderPairs,
        hm \in Levels, hs \in Levels, ts \in Levels, tm \in Levels, tc \in Levels}

\* the row that stands for "no row" in the specifications that use none
NoRow ==
    [article |-> Null, description |-> Null, mpl |-> Null, soh |-> Null,
     mpl_header |-> Null, soh_header |-> Null,
     tail_soh |-> Null, tail_mpl |-> Null, tail_capacity |-> Null]

NoFinal == [set |-> FALSE, threw |-> FALSE, pair |-> [mpl |-> 0, soh |-> 0], rows |-> <<>>]

\* what a defective row may hold in a label and in a numeric field: nothing
\* (missing), null, a value of the wrong type, text that is no number
DefectiveLabels == {Undef, Null, Num(7), Num(0), Str(MPL), Str(<<"h">>)}
DefectiveNumbers == {Undef, Null, Str(<<"a">>), Num(4)}

DefectiveRows ==
    {[article |-> Str(<<"A", "1">>), description |-> Undef,
      mpl |-> hm, soh |-> hs, mpl_header |-> lm, soh_header |-> ls,
      tail_soh |-> ts, tail_mpl |-> tm, tail_capacity |-> tc] :
        lm \in DefectiveLabels, ls \in DefectiveLabels,
        hm \in DefectiveNumbers, hs \in DefectiveNumbers,
        ts \in DefectiveNumbers, tm \in DefectiveNumbers, tc \in {Undef, Num(4)}}


---------------------------------------------------------------------------
(* The upload handler (POST /api/upload), in four of its variants:            *)
(*   "text"   answers with the provider's output_text as it is               *)
(*   "v5"     OpenAI only, map + filter, delete in finally                   *)
(*   "v6"     Gemini or OpenAI, map + filter, delete in finally              *)
(*   "v8"     as "v5", with a fixed ceiling and a case-sensitive timeout test *)
(*   "parser" forwards the file to the parser service and passes its body on *)

Variants == {"text", "v5", "v6", "v8", "parser"}

\* 10 * 1024 * 1024
DefaultMaxBytes == 10485760
\* a ceiling set through MAX_UPLOAD_BYTES
EnvMaxBytes == 1000
\* 15 * 1024 * 1024
FixedMaxBytes == 15728640

NoResp == [status |-> 0, kind |-> "none", rows |-> <<>>]
Response(status, kind, rows) == [status |-> status, kind |-> kind, rows |-> rows]

NoErr == [cause |-> "none", status |-> 0, says |-> "-"]
\* String(e) of a timeout holds the word as "timeout", holds it in another
\* case, or does not hold it ("Request timed out.")
TimeoutTexts == {"timeout", "Timeout", "-"}
\* property reads on null or undefined
TypeError == [cause |-> "other", status |-> 0, says |-> "-"]
\* what a call of the OpenAI client may throw: an API error carrying a status,
\* the timeout of the client, anything else
Errors ==
    {[cause |-> "api", status |-> 401, says |-> "-"], TypeError}
    \cup {[cause |-> "timeout", status |-> 0, says |-> w] : w \in TimeoutTexts}

NoPend == [kind |-> "none", r |-> NoResp, e |-> NoErr, rows |-> <<>>, shape |-> "none"]
NoUpload == [ok |-> FALSE, uri |-> FALSE, name |-> FALSE]

HandlerIdle ==
    /\ req = [variant |-> "none", hasFile |-> FALSE, size |-> 0, provider |-> "openai",
              key |-> FALSE, maxEnv |-> 0]
    /\ pc = "idle"
    /\ calls = <<>>
    /\ upl = NoUpload
    /\ del = "none"
    /\ pend = NoPend
    /\ resp = NoResp

\* getItem of a key that is not stored gives null
Absent == [json |-> "absent", items |-> <<>>]
NoPage == [mounted |-> FALSE, file |-> FALSE, rows |-> <<>>, error |-> "", loading |-> FALSE]
NoView == [impl |-> "svg", loaded |-> FALSE, rows |-> <<>>, error |-> "", found |-> FALSE]
NoSize == [set |-> FALSE, avail |-> 0, num |-> 0, den |-> 1]
\* let cols = 3 / let columns = 3; stored is the text under label_cols
NoCtl == [impl |-> "svg", mounted |-> FALSE, cols |-> 3, stored |-> <<>>, changed |-> FALSE]
NoCode == [set |-> FALSE, path |-> "none", s |-> <<>>]
\* no barcode has been drawn
NoSvg == [set |-> FALSE, client |-> 0, data |-> <<>>, runs |-> <<>>, width |-> 0,
          height |-> 0, module |-> 0, barcodeW |-> 0, bars |-> <<>>]
\* the labels view before it is mounted: no timer, no barcode registered
NoRefit == [impl |-> "fit", mounted |-> FALSE, refitTimer |-> 0, timers |-> {},
            barcodes |-> {}, fresh |-> {}, step |-> "none", ran |-> "none"]

\* no page is open in the browser
ClientIdle ==
    /\ page = NoPage
    /\ store = [ls |-> Absent, ss |-> Absent]
    /\ flight = <<>>
    /\ lview = NoView
    /\ hist = [ok |-> FALSE, rows |-> <<>>]
    /\ svg = NoSvg
    /\ rf = NoRefit
    /\ ctl = NoCtl
    /\ article = Null
    /\ encoded = NoCode
    /\ el = [client |-> 0, measured |-> 0, set |-> FALSE, avail |-> 0, num |-> 0, den |-> 1]
    /\ last = NoSize

ClientUnchanged ==
    UNCHANGED <<page, store, flight, lview, hist, ctl, article, encoded, el, last, rf, svg>>

HandlerUnchanged == UNCHANGED <<req, pc, calls, upl, del, pend, resp>> /\ ClientUnchanged
PureUnchanged == UNCHANGED <<raw, coerced, desc, cleaned, row, final>> /\ ClientUnchanged

\* no request is being handled and no helper is being applied
ServerIdle ==
    /\ HandlerIdle
    /\ raw = Null /\ coerced = [set |-> FALSE, v |-> 0]
    /\ desc = Null /\ cleaned = [set |-> FALSE, s |-> <<>>]
    /\ row = NoRow /\ final = NoFinal

ServerUnchanged ==
    UNCHANGED <<raw, coerced, desc, cleaned, row, final, req, pc, calls, upl, del, pend, resp>>

\* the rows a provider may return in the handler's runs
HandlerRow(a, hm, hs, ts, tm, tc) ==
    [article |-> a, description |-> Str(<<"P", "I", " ", "w">>),
     mpl |-> Num(hm), soh |-> Num(hs),
     mpl_header |-> Str(MPL), soh_header |-> Str(SOH),
     tail_soh |-> Num(ts), tail_mpl |-> Num(tm), tail_capacity |-> Num(tc)]

HandlerRows ==
    {HandlerRow(Str(<<" ", "A", "1", " ">>), 10, 4, 4, 10, 20),
     HandlerRow(Str(<<"A", "1">>), 4, 10, 10, 4, 20),
     HandlerRow(Str(<<" ">>), 10, 4, 4, 10, 20),
     HandlerRow(Str(<<"B", "2">>), 20, 10, 4, 10, 20)}

RowLists == UNION {[1..k -> HandlerRows] : k \in 0..MaxRows}

\* what the structured output of a provider call that succeeded may be:
\*   "rows"            an object whose rows is a list of objects
\*   "missing"         no output text at all
\*   "invalid"         text that is not JSON
\*   "null", "number"  JSON that is no object
\*   "rows_not_list"   an object whose rows is no list
\*   "null_element"    a rows list with an element null
\*   "number_element"  a rows list with an element that is a number
Malformed == {"missing", "invalid", "null", "number", "rows_not_list"}
WithElement == {"null_element", "number_element"}
ProviderOutputs ==
    {[shape |-> "rows", rows |-> rs] : rs \in RowLists}
    \cup {[shape |-> sh, rows |-> <<>>] : sh \in Malformed}
    \cup {[shape |-> sh, rows |-> rs] : sh \in WithElement, rs \in {l \in RowLists : Len(l) <= 1}}

\* every property read on a number gives undefined
NumberElement ==
    [article |-> Undef, description |-> Undef, mpl |-> Undef, soh |-> Undef,
     mpl_header |-> Undef, soh_header |-> Undef,
     tail_soh |-> Undef, tail_mpl |-> Undef, tail_capacity |-> Undef]

\* Array.isArray(data.rows) ? data.rows : [] -- the list that is mapped
RowsOf(out) ==
    CASE out.shape = "rows" -> out.rows
      [] out.shape = "number_element" -> Append(out.rows, NumberElement)
      [] out.shape = "null_element" -> out.rows
      [] OTHER -> <<>>

\* data.rows with data null, row.mpl_header with row null: a TypeError
FinalizeThrows(out) == out.shape \in {"null", "null_element"}

\* JSON.parse(text) with no try around it (Gemini path)
ParseThrows(out) == out.shape = "invalid"

\* a row of a response body, as JSON
BodyRow(o) ==
    [article |-> Str(o.article), description |-> Str(o.description),
     mpl |-> Num(o.mpl), soh |-> Num(o.soh)]

\* the rows of a body that is the provider's own text
VerbatimRow(r) ==
    [article |-> r.article, description |-> r.description, mpl |-> r.mpl, soh |-> r.soh]

FilteredBody(rows) == [i \in 1..Len(finalRows(rows)) |-> BodyRow(finalRows(rows)[i])]
VerbatimBody(rows) == [i \in 1..Len(rows) |-> VerbatimRow(rows[i])]

\* Number(platform?.env?.MAX_UPLOAD_BYTES) || 10 * 1024 * 1024
MAX_BYTES(q) ==
    IF q.variant = "v8" THEN FixedMaxBytes
    ELSE IF q.maxEnv # 0 THEN q.maxEnv ELSE DefaultMaxBytes

\* String(e).toLowerCase().includes('timeout'); String(e).includes('timeout')
IncludesTimeout(q, e) ==
    IF q.variant = "v8" THEN e.says = "timeout" ELSE e.says \in {"timeout", "Timeout"}

\* the catch block of the handler
Catch(q, e) ==
    CASE q.variant = "text" -> Response(500, "text", <<>>)
      [] q.variant = "parser" -> Response(500, "json_error", <<>>)
      [] OTHER ->
           Response(IF e.status # 0 THEN e.status
                    ELSE IF IncludesTimeout(q, e) THEN 504 ELSE 500,
                    "json_error", <<>>)

Deliver(r) == resp' = r /\ pc' = "done"

InitHandler ==
    /\ req \in [variant : Variants, hasFile : BOOLEAN,
                size : {EnvMaxBytes, EnvMaxBytes + 1, DefaultMaxBytes, DefaultMaxBytes + 1,
                        FixedMaxBytes + 1},
                provider : {"openai", "gemini"}, key : BOOLEAN,
                maxEnv : {0, EnvMaxBytes}]
    /\ pc = "start"
    /\ calls = <<>>
    /\ upl = NoUpload
    /\ del = "none"
    /\ pend = NoPend
    /\ resp = NoResp
    /\ raw = Null /\ coerced = [set |-> FALSE, v |-> 0]
    /\ desc = Null /\ cleaned = [set |-> FALSE, s |-> <<>>]
    /\ row = NoRow /\ final = NoFinal
    /\ ClientIdle

\* mutant: the size guard comes after the upload has been started
GuardsPassed_noSizeGuard(q) ==
    /\ q.hasFile
    /\ q.variant \in {"text", "v5", "v8"} => q.provider = "openai"
    /\ q.key

\* the request passes every early return of the handler
GuardsPassed(q) ==
    /\ q.hasFile
    /\ q.variant \in {"text", "v5", "v8"} => q.provider = "openai"
    /\ q.key
    /\ q.variant \in {"v5", "v6", "v8"} => ~(q.size > MAX_BYTES(q))

\* the early returns, in the order of the code
GuardResponse(q) ==
    CASE ~q.hasFile ->
           Response(400, IF q.variant = "parser" THEN "json_error" ELSE "text", <<>>)
      [] q.hasFile /\ q.variant \in {"text", "v5", "v8"} /\ q.provider # "openai" ->
           Response(400, "json_error", <<>>)
      [] OTHER ->
           IF ~q.key
           THEN Response(500,
                         IF q.variant = "parser" \/ (q.variant = "v6" /\ q.provider = "gemini")
                         THEN "json_error" ELSE "text", <<>>)
           ELSE Response(413, "json_error", <<>>)

\* formData(), the guards on file, provider, key and size
Guards ==
    /\ pc = "start"
    /\ IF GuardsPassed(req)
       THEN /\ pc' = CASE req.variant = "parser" -> "parse_call"
                        [] req.variant = "v6" /\ req.provider = "gemini" -> "g_start"
                        [] OTHER -> "upload"
            /\ resp' = resp
       ELSE Deliver(GuardResponse(req))
    /\ UNCHANGED <<req, calls, upl, del, pend>>
    /\ PureUnchanged

\* what follows a throw inside the handler's try block: with an upload to
\* delete the finally block runs first, otherwise the catch block answers
Thrown(e) ==
    IF req.variant \in {"v5", "v6", "v8"} /\ upl'.ok
    THEN /\ pend' = [NoPend EXCEPT !.kind = "throw", !.e = e]
         /\ pc' = "cleanup"
         /\ resp' = resp
    ELSE /\ pend' = pend
         /\ Deliver(Catch(req, e))

\* uploaded = await openai.files.create(...)
OpenAIUpload ==
    /\ pc = "upload"
    /\ calls' = Append(calls, "upload")
    /\ \/ /\ upl' = [ok |-> TRUE, uri |-> TRUE, name |-> TRUE]
          /\ pc' = "generate"
          /\ UNCHANGED <<pend, resp>>
       \/ /\ upl' = upl
          /\ \E e \in Errors : Thrown(e)
    /\ UNCHANGED <<req, del>>
    /\ PureUnchanged

\* resp = await openai.responses.create(...), then the body of the answer
OpenAIGenerate ==
    /\ pc = "generate"
    /\ calls' = Append(calls, "generate")
    /\ upl' = upl
    /\ \/ \E e \in Errors : Thrown(e)
       \/ \E out \in ProviderOutputs :
            IF req.variant = "text"
            THEN /\ Deliver(IF out.shape \in {"rows", "missing"}
                            THEN Response(200, "json_rows", VerbatimBody(out.rows))
                            ELSE Response(200, "raw", <<>>))
                 /\ pend' = pend
            ELSE /\ pend' = IF FinalizeThrows(out)
                            THEN [NoPend EXCEPT !.kind = "throw", !.e = TypeError,
                                                !.shape = out.shape]
                            ELSE [NoPend EXCEPT !.kind = "return",
                                                !.r = Response(200, "json_rows",
                                                               FilteredBody(RowsOf(out))),
                                                !.rows = RowsOf(out),
                                                !.shape = out.shape]
                 /\ pc' = "cleanup"
                 /\ resp' = resp
    /\ UNCHANGED <<req, del>>
    /\ PureUnchanged

\* what a fetch under withAbort may throw: the abort reason 'timeout', or a
\* network failure; no API error object, so no status
FetchErrors == {[cause |-> "timeout", status |-> 0, says |-> "timeout"], TypeError}
\* the statuses of an upstream answer that is not ok
UpstreamStatuses == {400, 503}

\* step 1 of the Gemini path: start the resumable upload
GeminiStart ==
    /\ pc = "g_start"
    /\ calls' = Append(calls, "upload_start")
    /\ \/ \E e \in FetchErrors : Deliver(Catch(req, e))
       \/ \E s \in UpstreamStatuses : Deliver(Response(s, "raw", <<>>))
       \/ Deliver(Response(502, "json_error", <<>>))
       \/ pc' = "g_upload" /\ resp' = resp
    /\ UNCHANGED <<req, upl, del, pend>>
    /\ PureUnchanged

\* step 2 of the Gemini path: upload the bytes and finalize; the answer may
\* lack the file's uri, its name, or both
GeminiUpload ==
    /\ pc = "g_upload"
    /\ calls' = Append(calls, "upload")
    /\ \/ /\ \E e \in FetchErrors : Deliver(Catch(req, e))
          /\ upl' = upl
       \/ /\ \E s \in UpstreamStatuses : Deliver(Response(s, "raw", <<>>))
          /\ upl' = upl
       \/ \E u \in BOOLEAN, n \in BOOLEAN :
            /\ upl' = [ok |-> TRUE, uri |-> u, name |-> n]
            /\ IF u THEN pc' = "g_generate" /\ resp' = resp
               ELSE Deliver(Response(502, "json_error", <<>>))
    /\ UNCHANGED <<req, del, pend>>
    /\ PureUnchanged

\* step 3 of the Gemini path: generateContent and the parsing of its answer,
\* up to the finally block
GeminiGenerate ==
    /\ pc = "g_generate"
    /\ calls' = Append(calls, "generate")
    /\ pc' = "cleanup"
    /\ \/ \E e \in FetchErrors : pend' = [NoPend EXCEPT !.kind = "throw", !.e = e]
       \/ \E s \in UpstreamStatuses :
            pend' = [NoPend EXCEPT !.kind = "return", !.r = Response(s, "raw", <<>>)]
       \/ \E out \in ProviderOutputs :
            pend' = IF ParseThrows(out)
                    THEN [NoPend EXCEPT !.kind = "throw", !.e = TypeError, !.shape = out.shape]
                    ELSE [NoPend EXCEPT !.kind = "continue", !.rows = RowsOf(out),
                                        !.shape = out.shape]
    /\ UNCHANGED <<req, upl, del, resp>>
    /\ PureUnchanged

\* what the handler does once its finally block is over
Outcome(q, p) ==
    CASE p.kind = "return" -> p.r
      [] p.kind = "throw" -> Catch(q, p.e)
      [] OTHER -> IF FinalizeThrows(p) THEN Catch(q, TypeError)
                  ELSE Response(200, "json_rows", FilteredBody(p.rows))

Complete == Deliver(Outcome(req, pend))

\* if (uploaded?.id) / if (fileName)
CanDelete(u) == u.name

\* finally: the delete is issued and awaited
IssueDelete ==
    /\ pc = "cleanup"
    /\ CanDelete(upl)
    /\ calls' = Append(calls, "delete")
    /\ del' = "pending"
    /\ pc' = "awaitDelete"
    /\ UNCHANGED <<req, upl, pend, resp>>
    /\ PureUnchanged

\* finally, with no file name to delete
SkipDelete ==
    /\ pc = "cleanup"
    /\ ~CanDelete(upl)
    /\ Complete
    /\ UNCHANGED <<req, calls, upl, del, pend>>
    /\ PureUnchanged

\* the awaited delete settles; a failure is caught and ignored
DeleteSettles ==
    /\ pc = "awaitDelete"
    /\ del' \in {"ok", "failed"}
    /\ Complete
    /\ UNCHANGED <<req, calls, upl, pend>>
    /\ PureUnchanged

\* the parser variant: forward the file, pass the parser's answer on
ParserCall ==
    /\ pc = "parse_call"
    /\ calls' = Append(calls, "parse")
    /\ \/ Deliver(Catch(req, TypeError))
       \/ \E s \in UpstreamStatuses : Deliver(Response(s, "raw", <<>>))
       \/ \E rows \in RowLists : Deliver(Response(200, "json_rows", VerbatimBody(rows)))
    /\ UNCHANGED <<req, upl, del, pend>>
    /\ PureUnchanged

Next ==
    \/ Guards
    \/ OpenAIUpload
    \/ OpenAIGenerate
    \/ GeminiStart
    \/ GeminiUpload
    \/ GeminiGenerate
    \/ IssueDelete
    \/ SkipDelete
    \/ DeleteSettles
    \/ ParserCall

Spec == InitHandler /\ [][Next]_vars

---------------------------------------------------------------------------
(* toInt applied to every value a provider may supply *)

InitToInt ==
    /\ raw \in RawValues
    /\ coerced = [set |-> FALSE, v |-> 0]
    /\ desc = Null /\ cleaned = [set |-> FALSE, s |-> <<>>]
    /\ row = NoRow /\ final = NoFinal
    /\ HandlerIdle
    /\ ClientIdle

ApplyToInt ==
    /\ ~coerced.set
    /\ coerced' = [set |-> TRUE, v |-> toInt(raw)]
    /\ UNCHANGED <<raw, desc, cleaned, row, final>>
    /\ HandlerUnchanged

NextToInt == ApplyToInt

SpecToInt == InitToInt /\ [][NextToInt]_vars

---------------------------------------------------------------------------
(* cleanDescription applied to every description a provider may supply *)

InitText ==
    /\ desc \in Descriptions
    /\ cleaned = [set |-> FALSE, s |-> <<>>]
    /\ raw = Null /\ coerced = [set |-> FALSE, v |-> 0]
    /\ row = NoRow /\ final = NoFinal
    /\ HandlerIdle
    /\ ClientIdle

ApplyCleanDescription ==
    /\ ~cleaned.set
    /\ cleaned' = [set |-> TRUE, s |-> cleanDescription(desc)]
    /\ UNCHANGED <<raw, coerced, desc, row, final>>
    /\ HandlerUnchanged

NextText == ApplyCleanDescription

SpecText == InitText /\ [][NextText]_vars

---------------------------------------------------------------------------
(* map + filter applied to one candidate row *)

InitRows ==
    /\ row \in CandidateRows
    /\ final = NoFinal
    /\ raw = Null /\ coerced = [set |-> FALSE, v |-> 0]
    /\ desc = Null /\ cleaned = [set |-> FALSE, s |-> <<>>]
    /\ HandlerIdle
    /\ ClientIdle

\* .map(r => ({ ...chooseFinalPair(r) ... })).filter(...) on the list <<row>>
FinalizeRow ==
    /\ ~final.set
    /\ final' = [set |-> TRUE, threw |-> chooseFinalPairThrows(row),
                 pair |-> chooseFinalPair(row), rows |-> finalRows(<<row>>)]
    /\ UNCHANGED <<raw, coerced, desc, cleaned, row>>
    /\ HandlerUnchanged

NextRows == FinalizeRow

SpecRows == InitRows /\ [][NextRows]_vars

\* the same step applied to rows with missing, null and wrongly typed fields
InitDefective ==
    /\ row \in DefectiveRows
    /\ final = NoFinal
    /\ raw = Null /\ coerced = [set |-> FALSE, v |-> 0]
    /\ desc = Null /\ cleaned = [set |-> FALSE, s |-> <<>>]
    /\ HandlerIdle
    /\ ClientIdle

SpecDefective == InitDefective /\ [][NextRows]_vars

---------------------------------------------------------------------------
(* Claims about the reconciler and the filter (SpecRows) *)

\* the raw article holds a character that is not white space
HasVisibleChar(v) == v.t = "str" /\ \E i \in 1..Len(v.s) : ~IsSpace(v.s[i])

\* C2: a candidate row is emitted if and only if its trimmed article is
\* non-empty and its reconciled pair satisfies soh <= mpl (soh = mpl is kept,
\* soh = mpl + 1 is dropped), and the emitted row carries that pair.
C2_EmittedIff ==
    final.set =>
        /\ (Len(final.rows) = 1) <=>
               (HasVisibleChar(row.article) /\ final.pair.soh <= final.pair.mpl)
        /\ Len(final.rows) <= 1
        /\ (final.pair.soh = final.pair.mpl /\ HasVisibleChar(row.article))
               => Len(final.rows) = 1
        /\ final.pair.soh = final.pair.mpl + 1 => final.rows = <<>>
        /\ \A i \in 1..Len(final.rows) :
               /\ final.rows[i].mpl = final.pair.mpl
               /\ final.rows[i].soh = final.pair.soh

\* a row on the boundary soh = mpl was kept
C2_Witness ==
    /\ final.set
    /\ final.pair.soh = final.pair.mpl
    /\ Len(final.rows) = 1
    /\ final.rows[1].soh = final.rows[1].mpl

\* C3: when header_mpl = tail_capacity and tail_mpl # tail_capacity,
\* chooseFinalPair returns the positional pair (tail_mpl, tail_soh), whatever
\* the labels and the other values.
C3_CapacityMisreadUsesTail ==
    (final.set /\ row.mpl.n = row.tail_capacity.n /\ row.tail_mpl.n # row.tail_capacity.n)
        => final.pair = [mpl |-> row.tail_mpl.n, soh |-> row.tail_soh.n]

\* the example of the specification: header (20, 10), tail (4, 10, 20), labels right
C3_Witness ==
    /\ final.set
    /\ row.mpl_header = Str(MPL) /\ row.soh_header = Str(SOH)
    /\ row.mpl.n = 20 /\ row.soh.n = 10
    /\ row.tail_soh.n = 4 /\ row.tail_mpl.n = 10 /\ row.tail_capacity.n = 20
    /\ final.pair = [mpl |-> 10, soh |-> 4]

\* the label, without the white space around it, is the word w in any case
LabelIs(v, w) ==
    /\ v.t = "str"
    /\ \E i \in 1..Len(v.s) :
          /\ i + 2 <= Len(v.s)
          /\ \A k \in 1..(i - 1) : IsSpace(v.s[k])
          /\ \A k \in (i + 3)..Len(v.s) : IsSpace(v.s[k])
          /\ \A k \in 0..2 : v.s[i + k] = w[k + 1] \/ UpperChar(v.s[i + k]) = w[k + 1]

C4_HeaderUsable ==
    /\ LabelIs(row.mpl_header, MPL) /\ LabelIs(row.soh_header, SOH)
    /\ ~(\/ (row.mpl.n = row.tail_capacity.n /\ row.tail_mpl.n # row.tail_capacity.n)
         \/ (row.mpl.n = row.tail_soh.n /\ row.soh.n = row.tail_mpl.n))
    /\ ~(row.mpl.n = 0 /\ row.tail_mpl.n > 0)

\* C4: chooseFinalPair returns the header pair exactly when both labels are
\* MPL and SOH (trimmed, upper-cased), the pair does not look swapped and the
\* header MPL is not a zero beside a positive tail MPL; otherwise the positional
\* pair. Which of the pairs satisfies soh <= mpl plays no part.
C4_HeaderPairExactlyWhenUsable ==
    final.set =>
        final.pair = IF C4_HeaderUsable
                     THEN [mpl |-> row.mpl.n, soh |-> row.soh.n]
                     ELSE [mpl |-> row.tail_mpl.n, soh |-> row.tail_soh.n]

\* a usable header pair that violates soh <= mpl is returned although the
\* positional pair satisfies it
C4_Witness ==
    /\ final.set
    /\ C4_HeaderUsable
    /\ row.soh.n > row.mpl.n
    /\ row.tail_soh.n <= row.tail_mpl.n
    /\ final.pair = [mpl |-> row.mpl.n, soh |-> row.soh.n]
    /\ final.pair # [mpl |-> row.tail_mpl.n, soh |-> row.tail_soh.n]

\* C5: every emitted row has mpl >= 0 and soh >= 0, whatever the provider
\* supplies in the numeric fields.
C5_EmittedNonNegative ==
    final.set => \A i \in 1..Len(final.rows) :
        final.rows[i].mpl >= 0 /\ final.rows[i].soh >= 0

---------------------------------------------------------------------------
(* Claims about toInt (SpecToInt) *)

RECURSIVE Pow10(_)
Pow10(k) == IF k = 0 THEN 1 ELSE 10 * Pow10(k - 1)

RECURSIVE PlaceValue(_)
\* the number a sequence of digits writes
PlaceValue(d) ==
    IF d = <<>> THEN 0
    ELSE DigitVal(Head(d)) * Pow10(Len(d) - 1) + PlaceValue(Tail(d))

\* the characters of s that are neither a comma nor a space
Unseparated(s) == SelectSeq(s, LAMBDA c : c \notin {",", " "})

\* no number starts the string once separators and leading tabs are gone
Unparseable(s) ==
    LET u == Unseparated(s)
        k == CHOOSE k \in 0..Len(u) :
                 /\ \A i \in 1..k : u[i] = "\t"
                 /\ (k < Len(u) => u[k + 1] # "\t")
    IN  ~(\/ (k + 1 <= Len(u) /\ IsDigit(u[k + 1]))
          \/ (k + 2 <= Len(u) /\ u[k + 1] \in {"-", "+"} /\ IsDigit(u[k + 2])))

\* only digits, commas and spaces, and at least one digit
GroupedDigits(s) ==
    /\ \A i \in 1..Len(s) : IsDigit(s[i]) \/ s[i] \in {",", " "}
    /\ \E i \in 1..Len(s) : IsDigit(s[i])

\* C6: toInt maps a missing, blank or unparseable field to 0, a number written
\* with thousands separators or spaces to the number its digits write, a JSON
\* integer to itself, and always returns an integer.
C6_ToIntTotal ==
    coerced.set =>
        /\ coerced.v \in Int
        /\ raw.t \in {"null", "undef"} => coerced.v = 0
        /\ (raw.t = "str" /\ Unparseable(raw.s)) => coerced.v = 0
        /\ (raw.t = "str" /\ GroupedDigits(raw.s))
               => coerced.v = PlaceValue(SelectSeq(raw.s, IsDigit))
        /\ raw.t = "num" => coerced.v = raw.n

\* "1,0" was read as 10
C6_Witness ==
    /\ coerced.set
    /\ raw = Str(<<"1", ",", "0">>)
    /\ coerced.v = 10

---------------------------------------------------------------------------
(* Claims about cleanDescription (SpecText) *)

\* length of the run of uppercase letters s starts with
RECURSIVE UpperRun(_)
UpperRun(s) == IF s # <<>> /\ IsUpper(Head(s)) THEN 1 + UpperRun(Tail(s)) ELSE 0

\* length of the run s starts with, of white space or of other characters
RECURSIVE SameRun(_, _)
SameRun(s, sp) ==
    IF s # <<>> /\ IsSpace(Head(s)) = sp THEN 1 + SameRun(Tail(s), sp) ELSE 0

\* s cut into its maximal runs of white space and of other characters
RECURSIVE RunsOf(_)
RunsOf(s) ==
    IF s = <<>> THEN <<>>
    ELSE LET n == SameRun(s, IsSpace(Head(s)))
         IN  <<SubSeq(s, 1, n)>> \o RunsOf(SubSeq(s, n + 1, Len(s)))

RECURSIVE Flatten(_)
Flatten(rs) == IF rs = <<>> THEN <<>> ELSE Head(rs) \o Flatten(Tail(rs))

\* the text with the white space at its ends dropped and every inner run of
\* two or more white-space characters replaced by one space
Tidy(s) ==
    LET rs == RunsOf(s)
        inner == [i \in 1..Len(rs) |->
                     IF IsSpace(rs[i][1])
                     THEN IF i = 1 \/ i = Len(rs) THEN <<>>
                          ELSE IF Len(rs[i]) >= 2 THEN <<" ">> ELSE rs[i]
                     ELSE rs[i]]
    IN  Flatten(inner)

\* the supplier prefix as the claim words it: 1 to 3 uppercase letters at the
\* start and the white space after them
C7_PrefixAsClaimed(s) ==
    LET r == UpperRun(s)
        w == SpaceRun(SubSeq(s, r + 1, Len(s)))
    IN  IF r \in 1..3 /\ w >= 1 THEN r + w ELSE 0

\* the same prefix, removed only when a letter or a digit follows its white space
C7_PrefixBeforeAlnum(s) ==
    LET n == C7_PrefixAsClaimed(s)
    IN  IF n > 0 /\ n < Len(s) /\ IsAlnum(s[n + 1]) THEN n ELSE 0

\* C7 as claimed: the prefix is removed whatever follows its white space
C7_StripsWhateverFollows ==
    cleaned.set =>
        cleaned.s = IF desc.t = "str"
                    THEN Tidy(SubSeq(desc.s, C7_PrefixAsClaimed(desc.s) + 1, Len(desc.s)))
                    ELSE <<>>

\* C7 amended: cleanDescription removes a leading run of 1 to 3 uppercase
\* letters and the white space after it only when a letter or a digit follows
\* that white space; it removes no other text, collapses every run of two or
\* more white-space characters to one space and trims both ends; a non-string
\* or empty description becomes the empty string.
C7_StripsBeforeAlnumOnly ==
    cleaned.set =>
        cleaned.s = IF desc.t = "str"
                    THEN Tidy(SubSeq(desc.s, C7_PrefixBeforeAlnum(desc.s) + 1, Len(desc.s)))
                    ELSE <<>>

\* a prefix followed by white space and a hyphen is kept, its white space collapsed
C7_Witness ==
    /\ cleaned.set
    /\ desc = Str(<<"P", " ", " ", "-">>)
    /\ cleaned.s = <<"P", " ", "-">>

---------------------------------------------------------------------------
(* Claims about the handler (Spec) *)

Issued(c) == \E i \in 1..Len(calls) : calls[i] = c

\* C1: every row of a successful response body has a non-empty article and
\* soh <= mpl, whichever handler variant produced the body.
C1_DeliveredRowsFiltered ==
    (resp.status = 200 /\ resp.kind = "json_rows") =>
        \A i \in 1..Len(resp.rows) :
            /\ resp.rows[i].article.t = "str"
            /\ resp.rows[i].article.s # <<>>
            /\ resp.rows[i].soh.n <= resp.rows[i].mpl.n

ReadsCeiling == req.variant \in {"v5", "v6", "v8"}
Oversized == req.hasFile /\ ReadsCeiling /\ req.size > MAX_BYTES(req)

\* C8 as claimed: no file is answered 400, an oversized file 413, and no
\* provider call has been made when either response is produced.
C8_NoFile400Oversized413 ==
    pc = "done" =>
        /\ ~req.hasFile => (resp.status = 400 /\ calls = <<>>)
        /\ Oversized => (resp.status = 413 /\ calls = <<>>)

\* C8 amended: no file is answered 400; an oversized file is answered 413 when
\* the selected provider is enabled and its API key is configured, and by the
\* earlier guard otherwise (400 provider not enabled, 500 missing key); in all
\* these cases no provider call has been made when the response is produced.
C8_GuardsAnswerBeforeAnyCall ==
    /\ pc = "done" =>
        /\ ~req.hasFile => (resp.status = 400 /\ calls = <<>>)
        /\ Oversized =>
            /\ calls = <<>>
            /\ resp.status =
                 IF req.variant \in {"v5", "v8"} /\ req.provider # "openai" THEN 400
                 ELSE IF ~req.key THEN 500
                 ELSE 413
    /\ (~req.hasFile \/ Oversized) => calls = <<>>

\* a file one byte over the ceiling set in the environment was answered 413
C8_Witness ==
    /\ pc = "done"
    /\ req.hasFile /\ req.key
    /\ req.maxEnv = EnvMaxBytes /\ req.size = EnvMaxBytes + 1
    /\ resp.status = 413
    /\ calls = <<>>

\* C9: once the transient upload has succeeded (and named the file), a delete
\* of it has been issued when the handler finishes, on every path, and a
\* failed delete leaves the response what the handler had decided.
C9_DeleteOnEveryPath ==
    (pc = "done" /\ ReadsCeiling /\ upl.ok /\ upl.name) =>
        /\ Issued("delete")
        /\ del = "failed" => resp = Outcome(req, pend)

\* C10: the response does not wait for the cleanup delete: while the delete is
\* pending, a response the handler has already computed has been delivered.
C10_ResponseNotHeldByDelete ==
    (del = "pending" /\ pend.kind = "return") => resp # NoResp

\* the provider call succeeded and its output is not of the schema's shape
MalformedOutput == pend.shape \in Malformed \cup WithElement

\* C11: when the provider call succeeds and its output is missing, is not
\* JSON, or is JSON of another shape than the schema's, the handler answers
\* 200 with a (possibly empty) filtered rows list, on the OpenAI and on the
\* Gemini path; zero well-formed rows are answered 200 with rows = [].
C11_MalformedOutputAnswered200 ==
    (pc = "done" /\ ReadsCeiling) =>
        /\ MalformedOutput => (resp.status = 200 /\ resp.kind = "json_rows")
        /\ (pend.kind = "continue" /\ pend.shape = "rows" /\ pend.rows = <<>>) =>
               resp = Response(200, "json_rows", <<>>)

\* C12: every response with a status other than 200 has a body that is a
\* JSON object with a string field error.
C12_ErrorBodiesAreJson ==
    (pc = "done" /\ resp.status # 200) => resp.kind = "json_error"

\* C13: in the variants that set a timeout on their provider calls, a call
\* ended by that timeout is answered 504, a failure carrying its own status
\* is answered with that status, and every other failure 500.
C13_TimeoutAnswered504 ==
    (pc = "done" /\ ReadsCeiling /\ pend.kind = "throw") =>
        resp.status = CASE pend.e.cause = "timeout" -> 504
                        [] pend.e.cause = "api" -> pend.e.status
                        [] OTHER -> 500

---------------------------------------------------------------------------
(* The main page: uploadAndExtract under withTimeout, persistState,          *)
(* restoreState, clearState, printLabels, resetAll; the labels view reading  *)
(* the stored rows when it mounts.                                           *)

\* uploads started in one run
MaxUploads == 2
\* longest row list a response carries to the page
MaxTable == 2

TableRows ==
    {[article |-> "A1", soh |-> 4, mpl |-> 10], [article |-> "B2", soh |-> 0, mpl |-> 3]}

\* the row lists of a response: no row twice, every order
Tables ==
    {t \in UNION {[1..k -> TableRows] : k \in 0..MaxTable} :
        \A i, j \in 1..Len(t) : t[i] = t[j] => i = j}

\* JSON.stringify(rows ?? []): the text of a JSON array
JSONstringify(rows) == [json |-> "array", items |-> rows]
\* JSON.parse of a stored text
JSONparse(t) == t.items
\* a stored text is never the empty string: raw ? ... : ... tests presence
Present(t) == t.json # "absent"

\* what the server may answer to the page:
\*   ok with {rows: [...]}, ok with rows that is no list, ok with a body that
\*   is not JSON, or a status that is not ok
Bodies ==
    {[ok |-> TRUE, kind |-> "rows", rows |-> t] : t \in Tables}
    \cup {[ok |-> TRUE, kind |-> k, rows |-> <<>>] : k \in {"no_list", "not_json"}}
    \cup {[ok |-> FALSE, kind |-> "error", rows |-> <<>>]}

\* `Request timed out after ${ms}ms`
TimeoutMessage == "timed out"

\* the setItem calls of persistState up to the first that throws: all four
\* succeed, the first throws, or one after the localStorage rows throws
WriteOutcomes == {"all", "none", "local"}

\* persistState()
persistState(st, rows, w) ==
    CASE w = "all" -> [ls |-> JSONstringify(rows), ss |-> JSONstringify(rows)]
      [] w = "local" -> [st EXCEPT !.ls = JSONstringify(rows)]
      [] OTHER -> st

\* clearState()
clearState == [ls |-> Absent, ss |-> Absent]

\* restoreState(): the rows the page shows after it
restoreState(st, rows) ==
    LET rawRows == IF Present(st.ls) THEN st.ls ELSE st.ss
        r == IF Present(rawRows) THEN JSONparse(rawRows) ELSE <<>>
    IN  IF Len(r) > 0 THEN r ELSE rows

\* onMount of the labels view: the rows and the error it ends with
LabelsMount(impl, ss, ls) ==
    LET rawRows == IF Present(ss) THEN ss ELSE ls
        rs == IF Present(rawRows) THEN JSONparse(rawRows) ELSE <<>>
    IN  [impl |-> impl, loaded |-> TRUE, rows |-> rs,
         error |-> IF impl = "svg" /\ Len(rs) = 0 THEN "No rows found" ELSE "",
         found |-> Present(rawRows)]

\* loading = true; error = ''; rows = []; ...
Begin(p) == [p EXCEPT !.loading = TRUE, !.error = "", !.rows = <<>>]

\* a call of uploadAndExtract: where it stands, and the rows it got
NewFlight == [st |-> "waiting", overlapped |-> FALSE, ok |-> FALSE, rows |-> <<>>]

\* the page is left: its pending continuations never run
Abandon(fl) ==
    [i \in 1..Len(fl) |->
        IF fl[i].st \in {"waiting", "timedout"} THEN [fl[i] EXCEPT !.st = "gone"] ELSE fl[i]]

InitClient ==
    /\ page = [NoPage EXCEPT !.mounted = TRUE]
    /\ store = [ls |-> Absent, ss |-> Absent]
    /\ flight = <<>>
    /\ lview \in {[NoView EXCEPT !.impl = i] : i \in {"svg", "fit"}}
    /\ hist = [ok |-> FALSE, rows |-> <<>>]
    /\ svg = NoSvg
    /\ rf = NoRefit
    /\ ctl = NoCtl
    /\ article = Null
    /\ encoded = NoCode
    /\ el = [client |-> 0, measured |-> 0, set |-> FALSE, avail |-> 0, num |-> 0, den |-> 1]
    /\ last = NoSize
    /\ ServerIdle

ViewsUnchanged == UNCHANGED <<ctl, article, encoded, el, last, rf, svg>>

\* onFileInput with a file chosen
ChooseFile ==
    /\ page.mounted /\ ~page.file
    /\ page' = [page EXCEPT !.file = TRUE]
    /\ UNCHANGED <<store, flight, lview, hist>>
    /\ ViewsUnchanged /\ ServerUnchanged

\* the Extract button (disabled={loading || !file}): uploadAndExtract()
ClickExtract ==
    /\ page.mounted /\ page.file /\ ~page.loading
    /\ Len(flight) < MaxUploads
    /\ page' = Begin(page)
    /\ flight' = Append(flight, NewFlight)
    /\ UNCHANGED <<store, lview, hist>>
    /\ ViewsUnchanged /\ ServerUnchanged

\* onDrop: file = f; uploadAndExtract() -- whatever loading is
DropFile ==
    /\ page.mounted
    /\ Len(flight) < MaxUploads
    /\ page' = Begin([page EXCEPT !.file = TRUE])
    /\ flight' = Append(flight, NewFlight)
    /\ UNCHANGED <<store, lview, hist>>
    /\ ViewsUnchanged /\ ServerUnchanged

\* the fetch of call k wins the race: the rest of the try block, then finally
ResponseArrives ==
    \E k \in 1..Len(flight), b \in Bodies, w \in WriteOutcomes :
        /\ flight[k].st = "waiting"
        /\ IF b.ok /\ b.kind # "not_json"
           THEN /\ page' = [page EXCEPT !.rows = b.rows, !.loading = FALSE]
                /\ store' = persistState(store, b.rows, w)
                /\ hist' = [ok |-> TRUE, rows |-> b.rows]
                /\ flight' = [i \in 1..Len(flight) |->
                                IF i = k
                                THEN [flight[i] EXCEPT !.st = "settled", !.ok = TRUE,
                                                       !.rows = b.rows]
                                ELSE [flight[i] EXCEPT !.overlapped = TRUE]]
           ELSE /\ page' = [page EXCEPT !.error = IF b.ok THEN "not JSON" ELSE "HTTP error",
                                        !.loading = FALSE]
                /\ w = "all"
                /\ flight' = [flight EXCEPT ![k].st = "settled"]
                /\ UNCHANGED <<store, hist>>
        /\ lview' = lview
        /\ ViewsUnchanged /\ ServerUnchanged

\* mutant: the late response of a call that timed out runs the try block
LateResponse_applied ==
    \E k \in 1..Len(flight), b \in Bodies :
        /\ flight[k].st = "timedout"
        /\ b.ok /\ b.kind = "rows" /\ b.rows # <<>>
        /\ flight' = [flight EXCEPT ![k].st = "late"]
        /\ page' = [page EXCEPT !.rows = b.rows]
        /\ UNCHANGED <<store, lview, hist>>
        /\ ViewsUnchanged /\ ServerUnchanged

\* the timer of call k wins the race: catch, then finally
TimeoutFires ==
    \E k \in 1..Len(flight) :
        /\ flight[k].st = "waiting"
        /\ flight' = [flight EXCEPT ![k].st = "timedout"]
        /\ page' = [page EXCEPT !.error = TimeoutMessage, !.loading = FALSE]
        /\ UNCHANGED <<store, lview, hist>>
        /\ ViewsUnchanged /\ ServerUnchanged

\* the fetch of a call that timed out is answered: the race is settled, so
\* nothing of the page runs
LateResponse ==
    \E k \in 1..Len(flight) :
        /\ flight[k].st = "timedout"
        /\ flight' = [flight EXCEPT ![k].st = "late"]
        /\ UNCHANGED <<page, store, lview, hist>>
        /\ ViewsUnchanged /\ ServerUnchanged

\* resetAll()
ResetAll ==
    /\ page.mounted
    /\ page' = [page EXCEPT !.file = FALSE, !.rows = <<>>, !.error = ""]
    /\ store' = clearState
    /\ hist' = [ok |-> FALSE, rows |-> <<>>]
    /\ UNCHANGED <<flight, lview>>
    /\ ViewsUnchanged /\ ServerUnchanged

\* reload, or Back to the page: a fresh page, onMount calls restoreState()
Reload ==
    /\ page' = [NoPage EXCEPT !.mounted = TRUE, !.rows = restoreState(store, <<>>)]
    /\ flight' = Abandon(flight)
    /\ UNCHANGED <<store, lview, hist>>
    /\ ViewsUnchanged /\ ServerUnchanged

\* printLabels(): persistState(), then the labels view opens in a new tab
\* (noopener), whose sessionStorage is empty
PrintLabels ==
    \E w \in WriteOutcomes :
        /\ page.mounted /\ page.rows # <<>>
        /\ store' = persistState(store, page.rows, w)
        /\ lview' = LabelsMount(lview.impl, Absent, store'.ls)
        /\ UNCHANGED <<page, flight, hist>>
        /\ ViewsUnchanged /\ ServerUnchanged

\* the labels view is opened in the tab of the page (address bar, history)
VisitLabels ==
    /\ page.mounted
    /\ page' = NoPage
    /\ flight' = Abandon(flight)
    /\ lview' = LabelsMount(lview.impl, store.ss, store.ls)
    /\ UNCHANGED <<store, hist>>
    /\ ViewsUnchanged /\ ServerUnchanged

NextClient ==
    \/ ChooseFile
    \/ ClickExtract
    \/ DropFile
    \/ ResponseArrives
    \/ TimeoutFires
    \/ LateResponse
    \/ ResetAll
    \/ Reload
    \/ PrintLabels
    \/ VisitLabels

SpecClient == InitClient /\ [][NextClient]_vars

---------------------------------------------------------------------------
(* Claims about the main page and the stored rows (SpecClient) *)

\* the step in which the timer of call k wins the race
TimesOut(k) ==
    /\ k <= Len(flight') /\ flight[k].st = "waiting" /\ flight'[k].st = "timedout"
\* the step in which the fetch of call k is answered after its timeout
AnsweredLate(k) ==
    /\ k <= Len(flight') /\ flight[k].st = "timedout" /\ flight'[k].st = "late"

C15_StoredRowsAreLatestExtraction ==
    hist.ok =>
        /\ restoreState(store, <<>>) = hist.rows
        /\ LabelsMount(lview.impl, Absent, store.ls).rows = hist.rows
        /\ LabelsMount(lview.impl, store.ss, store.ls).rows = hist.rows

\* C16: a labels view that mounted with the rows key absent from both
\* storages has an empty row list and no error.
C16_AbsentKeyIsNoDataYet ==
    (lview.loaded /\ ~lview.found) => (lview.rows = <<>> /\ lview.error = "")

---------------------------------------------------------------------------
(* fitOne of the labels view: the font size of a barcode element, committed  *)
(* as the fraction num / den of a pixel                                      *)

\* widest box a label cell gets (clientWidth)
MaxClient == 14
\* widest barcode text at the baseline size (scrollWidth)
MaxMeasured == 8

BASE_SIZE == 56
MAX_SIZE == 80
MIN_SIZE == 18
SIDE_PADDING_PX == 2

\* mutant: no upper clamp
FitSize_noMaxClamp(available, measured) ==
    IF BASE_SIZE * available < MIN_SIZE * measured THEN [num |-> MIN_SIZE, den |-> 1]
    ELSE [num |-> BASE_SIZE * available, den |-> measured]

\* newSize = (BASE_SIZE * available) / measured, clamped to [MIN_SIZE, MAX_SIZE]
FitSize(available, measured) ==
    IF BASE_SIZE * available > MAX_SIZE * measured THEN [num |-> MAX_SIZE, den |-> 1]
    ELSE IF BASE_SIZE * available < MIN_SIZE * measured THEN [num |-> MIN_SIZE, den |-> 1]
    ELSE [num |-> BASE_SIZE * available, den |-> measured]

\* fitOne(el): the element after the call
fitOne(e) ==
    LET available == e.client - SIDE_PADDING_PX
    IN  IF available <= 0 THEN e
        ELSE IF e.measured <= 0
             THEN [e EXCEPT !.set = TRUE, !.avail = available, !.num = BASE_SIZE, !.den = 1]
             ELSE [e EXCEPT !.set = TRUE, !.avail = available,
                            !.num = FitSize(available, e.measured).num,
                            !.den = FitSize(available, e.measured).den]

InitFit ==
    /\ el \in {[client |-> c, measured |-> m, set |-> FALSE, avail |-> 0, num |-> 0, den |-> 1] :
                 c \in 0..MaxClient, m \in 0..MaxMeasured}
    /\ last = NoSize
    /\ page = NoPage
    /\ store = [ls |-> Absent, ss |-> Absent]
    /\ flight = <<>>
    /\ lview = NoView
    /\ hist = [ok |-> FALSE, rows |-> <<>>]
    /\ svg = NoSvg
    /\ rf = NoRefit
    /\ ctl = NoCtl
    /\ article = Null
    /\ encoded = NoCode
    /\ ServerIdle

\* the cell gets another width: columns changed, window resized
Resize ==
    /\ \E w \in 0..MaxClient : w # el.client /\ el' = [el EXCEPT !.client = w]
    /\ UNCHANGED <<last, page, store, flight, lview, hist, ctl, article, encoded, rf, svg>>
    /\ ServerUnchanged

\* the refit timer or beforeprint runs fitOne on the element
FitOne ==
    /\ el' = fitOne(el)
    /\ last' = IF el.client - SIDE_PADDING_PX > 0 /\ el.set
               THEN [set |-> TRUE, avail |-> el.avail, num |-> el.num, den |-> el.den]
               ELSE last
    /\ UNCHANGED <<page, store, flight, lview, hist, ctl, article, encoded, rf, svg>>
    /\ ServerUnchanged

NextFit ==
    \/ Resize
    \/ FitOne

SpecFit == InitFit /\ [][NextFit]_vars

---------------------------------------------------------------------------
(* Claims about fitOne (SpecFit) *)

\* size a <= size b, sizes as fractions
SizeLeq(a, b) == a.num * b.den <= b.num * a.den
IsMax(a) == a.num = MAX_SIZE * a.den

\* C17: after fitOne has committed a size, the width of the symbol at that
\* size (measured width * size / baseline size) is at most the available
\* width, for every available and measured width > 0.
C17_RenderedWidthFits ==
    (el.set /\ el.measured > 0) =>
        el.measured * el.num <= BASE_SIZE * el.den * el.avail

\* C18: for a fixed measured width, of two sizes fitOne commits the one for
\* the smaller available width is the smaller or equal one, and once a size is
\* the maximum it is the maximum for every larger available width.
C18_MonotoneInAvailableWidth ==
    (el.set /\ last.set /\ el.measured > 0) =>
        /\ last.avail <= el.avail => SizeLeq(last, el)
        /\ el.avail <= last.avail => SizeLeq(el, last)
        /\ (IsMax(last) /\ last.avail <= el.avail) => IsMax(el)
        /\ (IsMax(el) /\ el.avail <= last.avail) => IsMax(last)

\* the cell grew and the size grew with it, up to the maximum
C18_Witness ==
    /\ el.set /\ last.set /\ el.measured > 0
    /\ last.avail < el.avail
    /\ ~SizeLeq(el, last)
    /\ IsMax(el)

---------------------------------------------------------------------------
(* The column control of the labels view: slider and nudge buttons with a    *)
(* stored count ("fit", part_002), select without storage ("svg")            *)

COLS_MIN == 1
COLS_MAX == 6

\* Math.max(COLS_MIN, Math.min(COLS_MAX, v))
Clamp(v) == IF v < COLS_MIN THEN COLS_MIN ELSE IF v > COLS_MAX THEN COLS_MAX ELSE v

\* the values the control lets the user pick: the range of the slider, the
\* options of the select
Offered(impl) == IF impl = "fit" THEN COLS_MIN..COLS_MAX ELSE 1..5

\* what label_cols may hold when the view opens: nothing, or a count stored
\* on an earlier visit
StoredCounts == {<<>>} \cup {NatToStr(n) : n \in COLS_MIN..COLS_MAX}

\* persistCols(): try { localStorage.setItem('label_cols', String(cols)) } catch {}
persistCols(c, written) == IF written THEN [c EXCEPT !.stored = NatToStr(c.cols)] ELSE c

InitCols ==
    /\ ctl \in {[NoCtl EXCEPT !.impl = i, !.stored = st] : i \in {"fit", "svg"}, st \in StoredCounts}
    /\ page = NoPage
    /\ store = [ls |-> Absent, ss |-> Absent]
    /\ flight = <<>>
    /\ lview = NoView
    /\ hist = [ok |-> FALSE, rows |-> <<>>]
    /\ svg = NoSvg
    /\ rf = NoRefit
    /\ article = Null
    /\ encoded = NoCode
    /\ el = [client |-> 0, measured |-> 0, set |-> FALSE, avail |-> 0, num |-> 0, den |-> 1]
    /\ last = NoSize
    /\ ServerIdle

ColsUnchanged ==
    /\ UNCHANGED <<page, store, flight, lview, hist, article, encoded, el, last, rf, svg>>
    /\ ServerUnchanged

\* onMount: savedCols = Number(localStorage.getItem('label_cols') || cols);
\* the select of the other implementation starts at 3 and reads nothing
MountCols ==
    /\ ~ctl.mounted
    /\ ctl' = IF ctl.impl = "fit"
              THEN LET savedCols == IF ctl.stored # <<>> THEN ParseInt(ctl.stored)
                                    ELSE [nan |-> FALSE, v |-> ctl.cols]
                   IN  [ctl EXCEPT !.mounted = TRUE,
                                   !.cols = IF savedCols.nan THEN ctl.cols ELSE Clamp(savedCols.v)]
              ELSE [ctl EXCEPT !.mounted = TRUE]
    /\ ColsUnchanged

\* onColsInput: the slider
SlideCols ==
    /\ ctl.mounted /\ ctl.impl = "fit"
    /\ \E v \in Offered("fit"), written \in BOOLEAN :
          ctl' = persistCols([ctl EXCEPT !.cols = Clamp(v), !.changed = TRUE], written)
    /\ ColsUnchanged

\* nudgeCols(-1), nudgeCols(+1)
NudgeCols ==
    /\ ctl.mounted /\ ctl.impl = "fit"
    /\ \E delta \in {-1, 1}, written \in BOOLEAN :
          ctl' = persistCols([ctl EXCEPT !.cols = Clamp(ctl.cols + delta), !.changed = TRUE],
                             written)
    /\ ColsUnchanged

\* on:change of the select: columns = +value
SelectCols ==
    /\ ctl.mounted /\ ctl.impl = "svg"
    /\ \E v \in Offered("svg") : ctl' = [ctl EXCEPT !.cols = v, !.changed = TRUE]
    /\ ColsUnchanged

\* the view is closed and opened again
ReopenCols ==
    /\ ctl.mounted
    /\ ctl' = [ctl EXCEPT !.mounted = FALSE, !.cols = 3, !.changed = FALSE]
    /\ ColsUnchanged

NextCols ==
    \/ MountCols
    \/ SlideCols
    \/ NudgeCols
    \/ SelectCols
    \/ ReopenCols

SpecCols == InitCols /\ [][NextCols]_vars

\* C19: in a mounted labels view the column count is an integer in 1..6,
\* every value of 1..6 can be chosen, and after a change the stored count is
\* the current one.
C19_ColumnsOneToSix ==
    ctl.mounted =>
        /\ ctl.cols \in 1..6
        /\ \A n \in 1..6 : n \in Offered(ctl.impl)
        /\ ctl.changed => ctl.stored = NatToStr(ctl.cols)

---------------------------------------------------------------------------
(* The Code 39 string of an article on the three rendering paths *)

\* longest article text
MaxArticle == 3

ALLOWED ==
    {"0", "1", "2", "3", "4", "5", "6", "7", "8", "9",
     "A", "B", "C", "D", "E", "F", "G", "H", "I", "J", "K", "L", "M",
     "N", "O", "P", "Q", "R", "S", "T", "U", "V", "W", "X", "Y", "Z",
     "-", ".", " ", "$", "/", "+", "%"}

\* [...s].filter((ch) => ALLOWED.includes(ch)).join('')
OnlyAllowed(s) == SelectSeq(s, LAMBDA ch : ch \in ALLOWED)

\* String(val ?? '')
StringOf(val) == IF val.t \in {"null", "undef"} THEN <<>> ELSE JsString(val)

sanitizeData(val) == OnlyAllowed(trim(toUpperCase(StringOf(val))))
withGuards(s) == <<"*">> \o s \o <<"*">>
\* human(v) of the labels page
human(v) == trim(StringOf(v))
\* toCode39 of the results table
toCode39(value) == <<"*">> \o trim(StringOf(value)) \o <<"*">>

\* the rendering paths: SVG renderer, font fallback of the labels page, font
\* barcode of the results table
Paths == {"svg", "font", "table"}

Encode(path, a) ==
    CASE path = "svg" -> withGuards(sanitizeData(a))
      [] path = "font" -> <<"*">> \o human(a) \o <<"*">>
      [] OTHER -> toCode39(a)

ArticlesToEncode ==
    {Str(s) : s \in StringsUpTo({"a", "A", "1", "*", " "}, MaxArticle)} \cup {Num(12), Null}

InitBarcode ==
    /\ article \in ArticlesToEncode
    /\ encoded = NoCode
    /\ page = NoPage
    /\ store = [ls |-> Absent, ss |-> Absent]
    /\ flight = <<>>
    /\ lview = NoView
    /\ hist = [ok |-> FALSE, rows |-> <<>>]
    /\ svg = NoSvg
    /\ rf = NoRefit
    /\ ctl = NoCtl
    /\ el = [client |-> 0, measured |-> 0, set |-> FALSE, avail |-> 0, num |-> 0, den |-> 1]
    /\ last = NoSize
    /\ ServerIdle

\* a row with the article is rendered on one of the paths
RenderBarcode ==
    /\ ~encoded.set
    /\ \E p \in Paths : encoded' = [set |-> TRUE, path |-> p, s |-> Encode(p, article)]
    /\ UNCHANGED <<article, page, store, flight, lview, hist, ctl, el, last, rf, svg>>
    /\ ServerUnchanged

NextBarcode == RenderBarcode

SpecBarcode == InitBarcode /\ [][NextBarcode]_vars

\* C20: on every rendering path the encoded string is '*' + s + '*' with s
\* the article without the characters outside the Code 39 alphabet; s holds
\* no '*' and no lower-case letter.
C20_EncodedIsSanitized ==
    encoded.set =>
        LET s == SubSeq(encoded.s, 2, Len(encoded.s) - 1)
        IN  /\ encoded.s = <<"*">> \o OnlyAllowed(StringOf(article)) \o <<"*">>
            /\ \A i \in 1..Len(s) : s[i] # "*" /\ s[i] \notin Lowers

---------------------------------------------------------------------------
(* Claims about defective rows (SpecDefective) *)

\* C21: for every row object, whatever its labels and numeric fields hold
\* (nothing, null, a value of the wrong type, text that is no number),
\* chooseFinalPair does not throw and returns a pair of integers.
C21_ChooseFinalPairTotal ==
    final.set =>
        /\ ~final.threw
        /\ final.pair.mpl \in Int /\ final.pair.soh \in Int

\* a row with a null label and without any numeric value went through
C21_Witness ==
    /\ final.set
    /\ row.mpl_header = Null /\ row.soh_header = Undef
    /\ row.mpl = Undef /\ row.soh = Null /\ row.tail_mpl = Str(<<"a">>)
    /\ final.pair = [mpl |-> 0, soh |-> 0]

---------------------------------------------------------------------------
(* More claims about fitOne (SpecFit) *)

\* the size of e is 56 * available / measured clamped to [18, 80]
C22_IsClampedQuotient(e, available) ==
    IF 56 * available > 80 * e.measured THEN e.num = 80 * e.den
    ELSE IF 56 * available < 18 * e.measured THEN e.num = 18 * e.den
    ELSE e.num * e.measured = 56 * available * e.den

\* C22: a call of fitOne with available width > 0 and measured width > 0
\* leaves the element at 56 * available / measured clamped to [18, 80],
\* whatever its size was before; a call with available width <= 0 or measured
\* width <= 0 leaves the element's size as it was.
C22_FitOneCommitsOrKeeps ==
    [][el'.client = el.client =>
         IF el.client - SIDE_PADDING_PX > 0 /\ el.measured > 0
         THEN el'.set /\ C22_IsClampedQuotient(el', el.client - SIDE_PADDING_PX)
         ELSE el'.set = el.set /\ el'.num = el.num /\ el'.den = el.den]_vars

---------------------------------------------------------------------------
(* Re-fitting the barcodes of the labels view: refitSoon and the observers   *)
(* of the view with the fitted font ("fit", part_002), the listeners and the *)
(* reactive statement of the view with SVG barcodes ("svg")                  *)

\* timers one view creates
MaxTimers == 5
\* barcodes on the sheet
MaxBarcodes == 3

\* mutant: the timer is cancelled and no new one is set
refitSoon_clearOnly(r) ==
    [r EXCEPT !.timers = @ \ {r.refitTimer}]

\* if (refitTimer) clearTimeout(refitTimer); refitTimer = setTimeout(pass, 0)
refitSoon(r) ==
    [r EXCEPT !.timers = (@ \ {r.refitTimer}) \cup {r.refitTimer + 1},
              !.refitTimer = r.refitTimer + 1]

\* for (const el of barcodeEls) fitOne(el) / renderAll(): every barcode gets
\* the size that fits the width its cell has now
Pass(r) == [r EXCEPT !.fresh = r.barcodes]

\* the layout changed: no size was computed from the widths of now
Stale(r) == [r EXCEPT !.fresh = {}]

InitRefit ==
    /\ rf \in {[NoRefit EXCEPT !.impl = i] : i \in {"fit", "svg"}}
    /\ page = NoPage
    /\ store = [ls |-> Absent, ss |-> Absent]
    /\ flight = <<>>
    /\ lview = NoView
    /\ hist = [ok |-> FALSE, rows |-> <<>>]
    /\ svg = NoSvg
    /\ ctl = NoCtl
    /\ article = Null
    /\ encoded = NoCode
    /\ el = [client |-> 0, measured |-> 0, set |-> FALSE, avail |-> 0, num |-> 0, den |-> 1]
    /\ last = NoSize
    /\ ServerIdle

RefitUnchanged ==
    /\ UNCHANGED <<page, store, flight, lview, hist, ctl, article, encoded, el, last, svg>>
    /\ ServerUnchanged

\* onMount. "fit": setupObservers(); await tick(); refitSoon(), the barcodes
\* register as their elements are created. "svg": the rows are read, their
\* hosts are created and the queued renderAll paints them
MountLabels ==
    /\ ~rf.mounted
    /\ IF rf.impl = "fit"
       THEN rf' = [refitSoon(rf) EXCEPT !.mounted = TRUE, !.step = "mount", !.ran = "none"]
       ELSE \E b \in SUBSET (1..MaxBarcodes) :
                rf' = [rf EXCEPT !.mounted = TRUE, !.barcodes = b, !.fresh = b,
                                 !.step = "mount", !.ran = "deferred"]
    /\ RefitUnchanged

\* use:registerBarcode on a new element
RegisterBarcode ==
    /\ rf.mounted /\ rf.impl = "fit" /\ rf.refitTimer < MaxTimers
    /\ \E b \in (1..MaxBarcodes) \ rf.barcodes :
           rf' = [refitSoon([rf EXCEPT !.barcodes = @ \cup {b}])
                     EXCEPT !.step = "event", !.ran = "none"]
    /\ RefitUnchanged

\* destroy() of the action: the element left the sheet
DestroyBarcode ==
    /\ rf.mounted /\ rf.impl = "fit"
    /\ \E b \in rf.barcodes :
           rf' = [rf EXCEPT !.barcodes = @ \ {b}, !.fresh = @ \ {b},
                            !.step = "destroy", !.ran = "none"]
    /\ RefitUnchanged

\* resize, orientationchange, ResizeObserver: the cells have another width.
\* "fit" calls refitSoon, "svg" calls renderAll in the listener
WindowResize ==
    /\ rf.mounted /\ rf.refitTimer < MaxTimers
    /\ IF rf.impl = "fit"
       THEN rf' = [refitSoon(Stale(rf)) EXCEPT !.step = "event", !.ran = "none"]
       ELSE rf' = [Pass(Stale(rf)) EXCEPT !.step = "event", !.ran = "sync"]
    /\ RefitUnchanged

\* the column count changes. "fit": onColsInput / nudgeCols call refitSoon and
\* the grid is patched before the timer runs. "svg": the reactive statement
\* calls renderAll when the component updates, before the grid is patched
ColumnsChange ==
    /\ rf.mounted /\ rf.refitTimer < MaxTimers
    /\ IF rf.impl = "fit"
       THEN rf' = [refitSoon(Stale(rf)) EXCEPT !.step = "event", !.ran = "none"]
       ELSE rf' = [Stale(Pass(rf)) EXCEPT !.step = "event", !.ran = "deferred"]
    /\ RefitUnchanged

\* the callback of setTimeout(..., 0) runs
TimerFires ==
    /\ \E t \in rf.timers :
           rf' = [Pass(rf) EXCEPT !.timers = @ \ {t}, !.step = "timer", !.ran = "deferred"]
    /\ RefitUnchanged

\* beforeprint: both views run the pass in the listener
BeforePrint ==
    /\ rf.mounted
    /\ rf' = [Pass(rf) EXCEPT !.step = "print", !.ran = "sync"]
    /\ RefitUnchanged

NextRefit ==
    \/ MountLabels
    \/ RegisterBarcode
    \/ DestroyBarcode
    \/ WindowResize
    \/ ColumnsChange
    \/ TimerFires
    \/ BeforePrint

SpecRefit == InitRefit /\ [][NextRefit]_vars

\* the view of part_002 alone, with a timer that runs once it is due
InitRefitFit == InitRefit /\ rf.impl = "fit"

SpecRefitFair == InitRefitFit /\ [][NextRefit]_vars /\ WF_vars(TimerFires)

---------------------------------------------------------------------------
(* Claims about re-fitting (SpecRefit, SpecRefitFair) *)

\* C23: after a resize, orientation change, column change or registration,
\* however many came before it since the last pass, exactly one re-fit pass is
\* pending and the event itself has run none; at most one re-fit is pending
\* at any time.
C23_OneDeferredPass ==
    /\ Cardinality(rf.timers) <= 1
    /\ rf.step = "event" => (rf.ran = "none" /\ Cardinality(rf.timers) = 1)

---------------------------------------------------------------------------
(* The SVG barcode of the labels view: buildRuns and renderIntoHost. Pixel   *)
(* lengths that need not be whole (module width, offsets, bar widths) are    *)
(* kept in tenths of a pixel                                                 *)

\* longest article drawn
MaxPayload == 9

\* n = narrow, w = wide: 9 elements, the first one a bar
C39 ==
    ("0" :> <<"n", "n", "n", "w", "w", "n", "w", "n", "n">>) @@
    ("1" :> <<"w", "n", "n", "w", "n", "n", "n", "n", "w">>) @@
    ("2" :> <<"n", "n", "w", "w", "n", "n", "n", "n", "w">>) @@
    ("3" :> <<"w", "n", "w", "w", "n", "n", "n", "n", "n">>) @@
    ("4" :> <<"n", "n", "n", "w", "w", "n", "n", "n", "w">>) @@
    ("5" :> <<"w", "n", "n", "w", "w", "n", "n", "n", "n">>) @@
    ("6" :> <<"n", "n", "w", "w", "w", "n", "n", "n", "n">>) @@
    ("7" :> <<"n", "n", "n", "w", "n", "n", "w", "n", "w">>) @@
    ("8" :> <<"w", "n", "n", "w", "n", "n", "w", "n", "n">>) @@
    ("9" :> <<"n", "n", "w", "w", "n", "n", "w", "n", "n">>) @@
    ("A" :> <<"w", "n", "n", "n", "n", "w", "n", "n", "w">>) @@
    ("B" :> <<"n", "n", "w", "n", "n", "w", "n", "n", "w">>) @@
    ("C" :> <<"w", "n", "w", "n", "n", "w", "n", "n", "n">>) @@
    ("D" :> <<"n", "n", "n", "n", "w", "w", "n", "n", "w">>) @@
    ("E" :> <<"w", "n", "n", "n", "w", "w", "n", "n", "n">>) @@
    ("F" :> <<"n", "n", "w", "n", "w", "w", "n", "n", "n">>) @@
    ("G" :> <<"n", "n", "n", "n", "n", "w", "w", "n", "w">>) @@
    ("H" :> <<"w", "n", "n", "n", "n", "w", "w", "n", "n">>) @@
    ("I" :> <<"n", "n", "w", "n", "n", "w", "w", "n", "n">>) @@
    ("J" :> <<"n", "n", "n", "n", "w", "w", "w", "n", "n">>) @@
    ("K" :> <<"w", "n", "n", "n", "n", "n", "n", "w", "w">>) @@
    ("L" :> <<"n", "n", "w", "n", "n", "n", "n", "w", "w">>) @@
    ("M" :> <<"w", "n", "w", "n", "n", "n", "n", "w", "n">>) @@
    ("N" :> <<"n", "n", "n", "n", "w", "n", "n", "w", "w">>) @@
    ("O" :> <<"w", "n", "n", "n", "w", "n", "n", "w", "n">>) @@
    ("P" :> <<"n", "n", "w", "n", "w", "n", "n", "w", "n">>) @@
    ("Q" :> <<"n", "n", "n", "n", "n", "n", "w", "w", "w">>) @@
    ("R" :> <<"w", "n", "n", "n", "n", "n", "w", "w", "n">>) @@
    ("S" :> <<"n", "n", "w", "n", "n", "n", "w", "w", "n">>) @@
    ("T" :> <<"n", "n", "n", "n", "w", "n", "w", "w", "n">>) @@
    ("U" :> <<"w", "w", "n", "n", "n", "n", "n", "n", "w">>) @@
    ("V" :> <<"n", "w", "w", "n", "n", "n", "n", "n", "w">>) @@
    ("W" :> <<"w", "w", "w", "n", "n", "n", "n", "n", "n">>) @@
    ("X" :> <<"n", "w", "n", "n", "w", "n", "n", "n", "w">>) @@
    ("Y" :> <<"w", "w", "n", "n", "w", "n", "n", "n", "n">>) @@
    ("Z" :> <<"n", "w", "w", "n", "w", "n", "n", "n", "n">>) @@
    ("-" :> <<"n", "w", "n", "n", "n", "n", "w", "n", "w">>) @@
    ("." :> <<"w", "w", "n", "n", "n", "n", "w", "n", "n">>) @@
    (" " :> <<"n", "w", "w", "n", "n", "n", "w", "n", "n">>) @@
    ("$" :> <<"n", "w", "n", "w", "n", "w", "n", "n", "n">>) @@
    ("/" :> <<"n", "w", "n", "w", "n", "n", "n", "w", "n">>) @@
    ("+" :> <<"n", "w", "n", "n", "n", "w", "n", "w", "n">>) @@
    ("%" :> <<"n", "n", "n", "w", "n", "w", "n", "w", "n">>) @@
    ("*" :> <<"n", "w", "n", "n", "w", "n", "w", "n", "n">>)

\* for (const token of pat) { push(isBar, token === 'w' ? 3 : 1); isBar = !isBar; }
\* the calls of push for one pattern
PatternCalls(pat) ==
    [i \in 1..Len(pat) |-> [isBar |-> i % 2 = 1, units |-> IF pat[i] = "w" THEN 3 ELSE 1]]

\* chars.forEach((ch, idx) => ...), the calls of push from character idx on: a
\* character without a pattern makes none, every other but the last is
\* followed by the gap
RECURSIVE CharCalls(_, _)
CharCalls(chars, idx) ==
    IF idx > Len(chars) THEN <<>>
    ELSE IF chars[idx] \notin DOMAIN C39 THEN CharCalls(chars, idx + 1)
    ELSE PatternCalls(C39[chars[idx]])
             \o (IF idx < Len(chars) THEN <<[isBar |-> FALSE, units |-> 1]>> ELSE <<>>)
             \o CharCalls(chars, idx + 1)

Quiet == <<[isBar |-> FALSE, units |-> 10]>>

\* mutant: no quiet zones
PushCalls_noQuiet(data) == CharCalls(data, 1)

\* the calls of push that buildRuns(data) makes, in order
PushCalls(data) == Quiet \o CharCalls(data, 1) \o Quiet

\* units of the entries lo..hi of a list of runs or calls
RECURSIVE UnitsOf(_, _, _)
UnitsOf(list, lo, hi) ==
    IF lo > hi THEN 0
    ELSE IF lo = hi THEN list[lo].units
    ELSE LET mid == (lo + hi) \div 2
         IN  UnitsOf(list, lo, mid) + UnitsOf(list, mid + 1, hi)

\* push(isBar, units) for every call in order: a call without units is
\* dropped, a call of the colour of the last run is added to that run, any
\* other call begins a run. So the runs are the longest stretches of calls of
\* one colour
push(pushes) ==
    LET made == SelectSeq(pushes, LAMBDA c : c.units > 0)
        begins == {i \in 1..Len(made) : i = 1 \/ made[i].isBar # made[i - 1].isBar}
        begin(r) == CHOOSE i \in begins : Cardinality({j \in begins : j <= i}) = r
        end(r) == IF r = Cardinality(begins) THEN Len(made) ELSE begin(r + 1) - 1
    IN  [r \in 1..Cardinality(begins) |->
            [isBar |-> made[begin(r)].isBar, units |-> UnitsOf(made, begin(r), end(r))]]

buildRuns(data) == push(PushCalls(data))

\* runs.reduce((a, r) => a + r.units, 0)
TotalUnits(runs) == UnitsOf(runs, 1, Len(runs))

Larger(a, b) == IF a >= b THEN a ELSE b

\* Math.max(0.7, Math.floor(width / totalUnits)), in tenths of a pixel
ModuleTenths(width, totalUnits) == Larger(7, 10 * (width \div totalUnits))

\* the rects of the bars, [x, w] in tenths of a pixel: x has advanced by the
\* width of every run before, a rect is appended for a bar
Rects(runs, module) ==
    LET placed == [i \in 1..Len(runs) |->
                      [isBar |-> runs[i].isBar,
                       x |-> UnitsOf(runs, 1, i - 1) * module,
                       w |-> runs[i].units * module]]
        bars == SelectSeq(placed, LAMBDA r : r.isBar)
    IN  [i \in 1..Len(bars) |-> [x |-> bars[i].x, w |-> bars[i].w]]

\* renderIntoHost(article, host, card) with a host, in a card of clientWidth client
renderIntoHost(a, client) ==
    LET width == Larger(120, (IF client = 0 THEN 240 ELSE client) - 8 * 2)
        data == withGuards(sanitizeData(a))
        runs == buildRuns(data)
        totalUnits == TotalUnits(runs)
        module == ModuleTenths(width, totalUnits)
    IN  [set |-> TRUE, client |-> client, data |-> data, runs |-> runs, width |-> width,
         height |-> Larger(44, (width * 18 + 50) \div 100),
         module |-> module,
         barcodeW |-> Larger(1, (module * totalUnits + 5) \div 10),
         bars |-> Rects(runs, module)]

\* k characters, those of the pair in turn
Alternating(pair, k) == [i \in 1..k |-> pair[(i % 2) + 1]]

\* the articles drawn: texts that need cleaning, a number, no article, every
\* character of the symbology, and texts of every length up to MaxPayload
ArticlesToRender ==
    {Str(<<" ", "a", "1">>), Str(<<"*", "1">>), Str(<<"a", "b", " ">>), Num(12), Null}
        \cup {Str(<<ch>>) : ch \in ALLOWED}
        \cup {Str(Alternating(pair, k)) :
                pair \in {<<"0", "W">>, <<"A", " ">>, <<"-", "%">>}, k \in 2..MaxPayload}

\* clientWidth of a label card: none yet, narrow (5 or 6 columns on a phone),
\* medium, wide
ClientWidths == {0, 100, 136, 150, 300}

InitRender ==
    /\ article \in ArticlesToRender
    /\ svg \in {[NoSvg EXCEPT !.client = c] : c \in ClientWidths}
    /\ encoded = NoCode
    /\ page = NoPage
    /\ store = [ls |-> Absent, ss |-> Absent]
    /\ flight = <<>>
    /\ lview = NoView
    /\ hist = [ok |-> FALSE, rows |-> <<>>]
    /\ ctl = NoCtl
    /\ el = [client |-> 0, measured |-> 0, set |-> FALSE, avail |-> 0, num |-> 0, den |-> 1]
    /\ last = NoSize
    /\ rf = NoRefit
    /\ ServerIdle

\* renderAll draws the row's article into its host
RenderIntoHost ==
    /\ ~svg.set
    /\ svg' = renderIntoHost(article, svg.client)
    /\ UNCHANGED <<article, encoded, page, store, flight, lview, hist, ctl, el, last, rf>>
    /\ ServerUnchanged

NextRender == RenderIntoHost

SpecRender == InitRender /\ [][NextRender]_vars

---------------------------------------------------------------------------
(* Claims about the SVG barcode (SpecRender) *)

\* the runs of the k-th character of the payload (k = 0 is the opening guard)
C25_CharRuns(runs, k) == SubSeq(runs, 2 + 10 * k, 10 + 10 * k)

\* C25: for a guarded payload with n data characters the runs alternate
\* between space and bar, the first and the last run are spaces of at least
\* 10 units, every character, the guards too, is 9 runs that begin and end
\* with a bar, 3 of them of 3 units and 6 of 1 unit, consecutive characters
\* have one space of 1 unit between them, and the runs total 16 * n + 51 units.
C25_RunsWellFormed ==
    svg.set =>
        LET runs == svg.runs
            n == Len(svg.data) - 2
        IN  /\ Len(runs) = 10 * n + 21
            /\ \A i \in 1..(Len(runs) - 1) : runs[i].isBar # runs[i + 1].isBar
            /\ ~runs[1].isBar /\ runs[1].units >= 10
            /\ ~runs[Len(runs)].isBar /\ runs[Len(runs)].units >= 10
            /\ \A k \in 0..(n + 1) :
                   LET ch == C25_CharRuns(runs, k)
                   IN  /\ ch[1].isBar /\ ch[9].isBar
                       /\ Cardinality({j \in 1..9 : ch[j].units = 3}) = 3
                       /\ Cardinality({j \in 1..9 : ch[j].units = 1}) = 6
            /\ \A k \in 0..n :
                   /\ ~runs[11 + 10 * k].isBar
                   /\ runs[11 + 10 * k].units = 1
            /\ TotalUnits(runs) = 16 * n + 51

\* an article in lower case with blanks around it was drawn as *A1*
C25_Witness ==
    /\ svg.set
    /\ article = Str(<<" ", "a", "1">>)
    /\ svg.data = <<"*", "A", "1", "*">>
    /\ Len(svg.runs) = 41
    /\ TotalUnits(svg.runs) = 83

\* the bars lie side by side from left to right
C26_BarsInOrder(bars) ==
    \A i \in 1..(Len(bars) - 1) : bars[i].x + bars[i].w < bars[i + 1].x

\* C26: the module width is floor(available width / total units), at least 1,
\* the drawn symbol (module width * total units) is exactly as wide as the
\* available width and never wider, and the bars are drawn at increasing
\* offsets without overlap.
C26_SymbolFillsWidth ==
    svg.set =>
        LET totalUnits == TotalUnits(svg.runs)
        IN  /\ svg.module = 10 * Larger(1, svg.width \div totalUnits)
            /\ svg.module * totalUnits = 10 * svg.width
            /\ svg.module * totalUnits <= 10 * svg.width
            /\ C26_BarsInOrder(svg.bars)

---------------------------------------------------------------------------
(* The handler with the header audit (part_007): swap-back and validation of *)
(* the rows the model returned                                               *)

\* data.rows.map(r => ...): the cleaned row
AuditClean(r) ==
    LET mh == HeaderLabel(r.mpl_header)
        sh == HeaderLabel(r.soh_header)
        swapped == mh = SOH /\ sh = MPL
    IN  [article |-> ArticleOf(r),
         description |-> cleanDescription(r.description),
         mpl |-> IF swapped THEN toInt(r.soh) ELSE toInt(r.mpl),
         soh |-> IF swapped THEN toInt(r.mpl) ELSE toInt(r.soh),
         mpl_header |-> mh,
         soh_header |-> sh]

\* r.article && (r.mpl_header === 'MPL' && r.soh_header === 'SOH') && r.soh <= r.mpl
AuditKeep(c) ==
    /\ c.article # <<>>
    /\ c.mpl_header = MPL /\ c.soh_header = SOH
    /\ c.soh <= c.mpl

\* ({ article, description, mpl, soh }) => ({ article, description, mpl, soh })
AuditStrip(c) ==
    [article |-> c.article, description |-> c.description, mpl |-> c.mpl, soh |-> c.soh]

\* finalRows of the handler
AuditFinalRows(rows) ==
    LET kept == SelectSeq([i \in 1..Len(rows) |-> AuditClean(rows[i])], AuditKeep)
    IN  [i \in 1..Len(kept) |-> AuditStrip(kept[i])]

\* the rows the model may return: the schema has article, description, the two
\* values and the two labels
AuditRows ==
    {[article |-> a, description |-> Str(<<"P", "I", " ", "w">>),
      mpl |-> Num(hm), soh |-> Num(hs), mpl_header |-> h[1], soh_header |-> h[2]] :
        a \in Articles, h \in HeaderPairs, hm \in Levels, hs \in Levels}

InitAudit ==
    /\ row \in AuditRows
    /\ final = NoFinal
    /\ raw = Null /\ coerced = [set |-> FALSE, v |-> 0]
    /\ desc = Null /\ cleaned = [set |-> FALSE, s |-> <<>>]
    /\ HandlerIdle
    /\ ClientIdle

\* the handler cleans, validates and returns the row
AuditRow ==
    /\ ~final.set
    /\ final' = [set |-> TRUE, threw |-> FALSE,
                 pair |-> [mpl |-> AuditClean(row).mpl, soh |-> AuditClean(row).soh],
                 rows |-> AuditFinalRows(<<row>>)]
    /\ UNCHANGED <<raw, coerced, desc, cleaned, row>>
    /\ HandlerUnchanged

NextAudit == AuditRow

SpecAudit == InitAudit /\ [][NextAudit]_vars

\* C27: a row reported with mpl_header "SOH" and soh_header "MPL" whose
\* article is not empty and whose values, once swapped back, satisfy
\* soh <= mpl is returned, with mpl the value reported as soh and soh the
\* value reported as mpl.
C27_SwappedRowIsReturned ==
    (/\ final.set
     /\ row.mpl_header = Str(SOH) /\ row.soh_header = Str(MPL)
     /\ ArticleOf(row) # <<>>
     /\ toInt(row.mpl) <= toInt(row.soh))
        => final.rows = <<[article |-> ArticleOf(row),
                           description |-> cleanDescription(row.description),
                           mpl |-> toInt(row.soh), soh |-> toInt(row.mpl)]>>

---------------------------------------------------------------------------
(* More claims about the main page (SpecClient) *)

\* the calls of uploadAndExtract that still await their result
C28_Awaiting == {k \in 1..Len(flight) : flight[k].st = "waiting"}

\* C28: while a call of uploadAndExtract awaits its result loading is true
\* and no other call awaits one, and once the call started last has delivered
\* its rows and no call awaits a result, the rows of the latest successful
\* extraction, those displayed and persisted, are the rows of that call.
C28_OneRequestAtATime ==
    /\ Cardinality(C28_Awaiting) <= 1
    /\ C28_Awaiting # {} => page.loading
    /\ (/\ C28_Awaiting = {}
        /\ hist.ok
        /\ flight # <<>>
        /\ flight[Len(flight)].st = "settled" /\ flight[Len(flight)].ok)
            => hist.rows = flight[Len(flight)].rows

\* the rows under the storage key in one storage, none if the key is absent
C29_Stored(t) == IF Present(t) THEN JSONparse(t) ELSE <<>>

\* C29: whenever the main page is not loading, the rows stored under the
\* storage key, in localStorage and in sessionStorage, are the rows the page
\* displays, an absent key counting as no rows.
C29_StoredRowsAreDisplayedRows ==
    (page.mounted /\ ~page.loading) =>
        /\ C29_Stored(store.ls) = page.rows
        /\ C29_Stored(store.ss) = page.rows

---------------------------------------------------------------------------
(* A claim about the rows list of the handler (Spec) *)

\* the candidates the handler keeps, each judged alone
C30_Kept(rows) == {i \in 1..Len(rows) : finalRows(<<rows[i]>>) # <<>>}

\* C30: the rows list the handler returns is an order-preserving selection of
\* the provider's list: the kept candidates are those that are kept when
\* judged alone, each gives one output row, the row it maps to alone, at the
\* place its rank among the kept candidates gives it, and the output is not
\* longer than the input.
C30_OrderPreservingSelection ==
    (/\ pc = "done" /\ req.variant # "text"
     /\ pend.shape = "rows"
     /\ resp.status = 200 /\ resp.kind = "json_rows")
        => LET kept == C30_Kept(pend.rows)
           IN  /\ Len(resp.rows) = Cardinality(kept)
               /\ Len(resp.rows) <= Len(pend.rows)
               /\ \A i \in kept :
                      resp.rows[Cardinality({j \in kept : j <= i})]
                          = BodyRow(finalRows(<<pend.rows[i]>>)[1])

\* two candidates were kept and returned in the provider's order
C30_Witness ==
    /\ pc = "done" /\ req.variant # "text" /\ pend.shape = "rows"
    /\ resp.status = 200 /\ resp.kind = "json_rows"
    /\ Len(pend.rows) = MaxRows /\ Len(resp.rows) = 2
    /\ resp.rows[1].article = Str(<<"B", "2">>)
    /\ resp.rows[2].article = Str(<<"A", "1">>)

=============================================================================
